---- MODULE Spec2Model ----
(***************************************************************************)
(* Model of the repertoire-deviation analysis engine of chess_coachAI:     *)
(* RepertoireAnalyzer.analyze_repertoire (sequential and parallel paths),  *)
(* with the collaborators it drives: PGNParser.parse_moves,                *)
(* OpeningDetector.find_deviation and StockfishEvaluator.                  *)
(*                                                                         *)
(* A position (chess.Board) is the sequence of moves pushed from the       *)
(* starting position; a move is its UCI string.  Python's None is the      *)
(* string None for optional strings and the empty tuple for other          *)
(* optional values (an optional x is <<>> or <<x>>).                       *)
(***************************************************************************)
EXTENDS Integers, Sequences, FiniteSets, TLC

\* ------------------------------------------------------------------ bounds
MaxGames == 3
MaxWorkers == 3
MaxCached == 1

\* --------------------------------------------------------------- constants
MIN_MOVES_FOR_ANALYSIS == 4
MATE_SCORE_CP == 10000
DefaultDepth == 18

None == "<None>"

\* ----------------------------------------------------------------- helpers
Range(s) == {s[i] : i \in 1..Len(s)}

SeqsUpTo(S, n) == UNION {[1..k -> S] : k \in 0..n}

Min(a, b) == IF a <= b THEN a ELSE b

Max(a, b) == IF a >= b THEN a ELSE b

\* Python truthiness of an optional string: None and "" are falsy.
Falsy(s) == s = None \/ s = ""

\* ------------------------------------------------- position / move library
\* chess.Board(): the starting position.
StartBoard == <<>>

\* board.push(move)
Push(board, move) == Append(board, move)

\* board.turn, as the side name find_deviation derives from it.
SideToMove(board) == IF Len(board) % 2 = 0 THEN "white" ELSE "black"

\* ---------------------------------------------------------- PGN fixtures
PgnShort == "1. e4 c5 2. Nf3"
PgnBooked == "1. e4 c5 2. Nf3 d6"
PgnBlackDev == "1. e4 d5 2. exd5 Qxd5"
PgnWhiteDev == "1. e4 c5 2. Nc3 Nc6 3. g3"
PgnNoResult == "1. Nf3 Nf6 2. g3 g6"

\* chess.pgn.read_game(...).mainline_moves() on the fixtures above.
MainlineMoves(pgn_string) ==
  CASE pgn_string = PgnShort -> <<"e2e4", "c7c5", "g1f3">>
    [] pgn_string = PgnBooked -> <<"e2e4", "c7c5", "g1f3", "d7d6">>
    [] pgn_string = PgnBlackDev -> <<"e2e4", "d7d5", "e4d5", "d8d5">>
    [] pgn_string = PgnWhiteDev -> <<"e2e4", "c7c5", "b1c3", "b8c6", "g2g3">>
    [] pgn_string = PgnNoResult -> <<"g1f3", "g8f6", "g2g3", "g7g6">>
    [] OTHER -> <<>>

\* PGNParser.parse_moves: an optional move list (<<>> is None).
ParseMoves(pgn_string) ==
  IF Falsy(pgn_string) THEN <<>>
  ELSE LET moves == MainlineMoves(pgn_string)
       IN IF moves = <<>> THEN <<>> ELSE <<moves>>

\* ------------------------------------------------------ opening reference
\* An OpeningDetector instance on which find_deviation is called repeatedly.
VARIABLES
  detector,            \* the OpeningDetector object (its attributes)
  dev_n,               \* number of find_deviation calls made
  dev_last,            \* the latest call: (n, moves, result), or <<>>
  dev_kept             \* an earlier call kept for comparison, or <<>>

\* reader.find_all(board): the moves the book endorses at a position.
BookMoves(board) ==
  CASE board = <<>> -> <<"e2e4">>
    [] board = <<"e2e4">> -> <<"c7c5", "e7e5">>
    [] board = <<"e2e4", "c7c5">> -> <<"g1f3">>
    [] board = <<"e2e4", "c7c5", "g1f3">> -> <<"d7d6">>
    [] OTHER -> <<>>

RECURSIVE FindDeviationFromOneBased(_, _, _, _)
\* The loop reporting the deviating ply counted from 1.
FindDeviationFromOneBased(moves, ply, board, last_booked_board) ==
  IF ply >= Len(moves)
  THEN [deviation_ply |-> Len(moves),
        deviating_side |-> "none",
        board_at_deviation |-> last_booked_board,
        is_fully_booked |-> TRUE,
        played_move |-> None,
        book_moves |-> <<>>]
  ELSE LET move == moves[ply + 1]
           book_moves == BookMoves(board)
       IN IF move \notin Range(book_moves)
          THEN [deviation_ply |-> ply + 1,
                deviating_side |-> SideToMove(board),
                board_at_deviation |-> board,
                is_fully_booked |-> FALSE,
                played_move |-> move,
                book_moves |-> book_moves]
          ELSE FindDeviationFromOneBased(moves, ply + 1, Push(board, move), board)

RECURSIVE FindDeviationFromLenient(_, _, _, _)
\* The loop letting any move pass where the book has no entry.
FindDeviationFromLenient(moves, ply, board, last_booked_board) ==
  IF ply >= Len(moves)
  THEN [deviation_ply |-> Len(moves),
        deviating_side |-> "none",
        board_at_deviation |-> last_booked_board,
        is_fully_booked |-> TRUE,
        played_move |-> None,
        book_moves |-> <<>>]
  ELSE LET move == moves[ply + 1]
           book_moves == BookMoves(board)
       IN IF book_moves # <<>> /\ move \notin Range(book_moves)
          THEN [deviation_ply |-> ply,
                deviating_side |-> SideToMove(board),
                board_at_deviation |-> board,
                is_fully_booked |-> FALSE,
                played_move |-> move,
                book_moves |-> book_moves]
          ELSE FindDeviationFromLenient(moves, ply + 1, Push(board, move), board)

RECURSIVE FindDeviationFromLastBooked(_, _, _, _)
\* The loop returning, at a deviation, the position one move earlier.
FindDeviationFromLastBooked(moves, ply, board, last_booked_board) ==
  IF ply >= Len(moves)
  THEN [deviation_ply |-> Len(moves),
        deviating_side |-> "none",
        board_at_deviation |-> last_booked_board,
        is_fully_booked |-> TRUE,
        played_move |-> None,
        book_moves |-> <<>>]
  ELSE LET move == moves[ply + 1]
           book_moves == BookMoves(board)
       IN IF move \notin Range(book_moves)
          THEN [deviation_ply |-> ply,
                deviating_side |-> SideToMove(board),
                board_at_deviation |-> last_booked_board,
                is_fully_booked |-> FALSE,
                played_move |-> move,
                book_moves |-> book_moves]
          ELSE FindDeviationFromLastBooked(moves, ply + 1, Push(board, move), board)

RECURSIVE FindDeviationFromFinalBoard(_, _, _, _)
\* The loop of find_deviation returning, for a fully booked game, the
\* position after the last move.
FindDeviationFromFinalBoard(moves, ply, board, last_booked_board) ==
  IF ply >= Len(moves)
  THEN [deviation_ply |-> Len(moves),
        deviating_side |-> "none",
        board_at_deviation |-> board,
        is_fully_booked |-> TRUE,
        played_move |-> None,
        book_moves |-> <<>>]
  ELSE LET move == moves[ply + 1]
           book_moves == BookMoves(board)
       IN IF move \notin Range(book_moves)
          THEN [deviation_ply |-> ply,
                deviating_side |-> SideToMove(board),
                board_at_deviation |-> board,
                is_fully_booked |-> FALSE,
                played_move |-> move,
                book_moves |-> book_moves]
          ELSE FindDeviationFromFinalBoard(moves, ply + 1, Push(board, move), board)

RECURSIVE FindDeviationFrom(_, _, _, _)
\* The loop of find_deviation from 0-based ply `ply`, at position `board`.
FindDeviationFrom(moves, ply, board, last_booked_board) ==
  IF ply >= Len(moves)
  THEN [deviation_ply |-> Len(moves),
        deviating_side |-> "none",
        board_at_deviation |-> last_booked_board,
        is_fully_booked |-> TRUE,
        played_move |-> None,
        book_moves |-> <<>>]
  ELSE LET move == moves[ply + 1]
           book_moves == BookMoves(board)
       IN IF move \notin Range(book_moves)
          THEN [deviation_ply |-> ply,
                deviating_side |-> SideToMove(board),
                board_at_deviation |-> board,
                is_fully_booked |-> FALSE,
                played_move |-> move,
                book_moves |-> book_moves]
          ELSE FindDeviationFrom(moves, ply + 1, Push(board, move), board)

\* find_deviation taking up the game where the previous call on the
\* instance stopped instead of at a fresh chess.Board().
FindDeviationResuming(moves) ==
  IF moves = <<>> THEN <<>>
  ELSE LET left == IF dev_last = <<>> \/ dev_last[1].result = <<>>
                   THEN StartBoard
                   ELSE dev_last[1].result[1].board_at_deviation
       IN <<FindDeviationFrom(moves, 0, left, left)>>

\* OpeningDetector.find_deviation: an optional DeviationResult.
FindDeviation(moves) ==
  IF moves = <<>> THEN <<>>
  ELSE <<FindDeviationFrom(moves, 0, StartBoard, StartBoard)>>

\* Move lists for which the injected detector is a double that yields no
\* result (mock_detector.find_deviation.return_value = None).
StubNoResult == {MainlineMoves(PgnNoResult)}

\* self.opening_detector.find_deviation(moves) as the analyzer calls it.
DetectorFindDeviation(moves) ==
  IF moves \in StubNoResult THEN <<>> ELSE FindDeviation(moves)

\* ------------------------------------------------------ external engine
\* The engine processes the model is run against: each answers a position
\* with a fixed analysis (info), so its result depends on the position only.
EngineTables == {1, 2}

\* self._engine.analyse(board, Limit(depth)) of engine process `tbl`.
EngineInfo(tbl, board) ==
  IF tbl = 1
  THEN [is_mate |-> FALSE, mate |-> 0, cp |-> 20 - 15 * Len(board),
        depth |-> <<DefaultDepth>>,
        pv |-> IF board = <<>> THEN <<"e2e4">> ELSE <<>>]
  ELSE CASE Len(board) = 1 ->
              [is_mate |-> TRUE, mate |-> 3, cp |-> 0,
               depth |-> <<>>, pv |-> <<"d7d5", "e4d5">>]
         [] Len(board) = 2 ->
              [is_mate |-> TRUE, mate |-> -2, cp |-> 0,
               depth |-> <<DefaultDepth>>, pv |-> <<>>]
         [] OTHER ->
              [is_mate |-> FALSE, mate |-> 0, cp |-> 7 * Len(board) - 5,
               depth |-> <<DefaultDepth>>, pv |-> <<"g1f3">>]

\* info["score"].white() of an analysis: a centipawn score cp, or a mate
\* score whose mate() is `mate`; mate_given tells MateGiven (the mate is on
\* the board and White delivered it) from Mate(0) (White is mated), which
\* both have mate() = 0.
CpScore(cp) == [is_mate |-> FALSE, mate |-> 0, mate_given |-> FALSE, cp |-> cp]

MateScore(moves, given) ==
  [is_mate |-> TRUE, mate |-> moves, mate_given |-> given, cp |-> 0]

\* The White-relative scores an engine answer is drawn from.
ScorePool ==
  {CpScore(-30), CpScore(0), CpScore(45),
   MateScore(3, FALSE), MateScore(-2, FALSE),
   MateScore(0, TRUE), MateScore(0, FALSE)}

\* The analyses (info dicts) an arbitrary engine may answer with.
EngineAnswers ==
  {[is_mate |-> sc.is_mate, mate |-> sc.mate, mate_given |-> sc.mate_given,
    cp |-> sc.cp, depth |-> d, pv |-> pv] :
     sc \in ScorePool, d \in {<<>>, <<12>>}, pv \in {<<>>, <<"g1f3", "d7d5">>}}

\* The EvalResult that StockfishEvaluator.evaluate builds from info.
EvalResultOf(info, depth) ==
  [score_cp |-> IF info.is_mate
                THEN (IF info.mate > 0 THEN MATE_SCORE_CP ELSE -MATE_SCORE_CP)
                ELSE info.cp,
   score_mate |-> IF info.is_mate THEN <<info.mate>> ELSE <<>>,
   depth |-> IF info.depth = <<>> THEN depth ELSE info.depth[1],
   best_move |-> IF info.pv = <<>> THEN None ELSE info.pv[1]]

\* EvalResult.score_for_color
ScoreForColor(eval_result, color) ==
  IF color = "white" THEN eval_result.score_cp ELSE -eval_result.score_cp

\* ------------------------------------------------------ RepertoireAnalyzer
\* _preprocess_game with the length test off by one (<= for <).
PreprocessGameOffByOne(game, g) ==
  IF Falsy(g.pgn) THEN <<>>
  ELSE LET moves == ParseMoves(g.pgn)
       IN IF moves = <<>> \/ Len(moves[1]) <= MIN_MOVES_FOR_ANALYSIS THEN <<>>
          ELSE LET deviation == DetectorFindDeviation(moves[1])
               IN IF deviation = <<>> THEN <<>>
                  ELSE <<[game |-> game,
                          deviation |-> deviation[1],
                          moves |-> moves[1]]>>

\* RepertoireAnalyzer._preprocess_game: an optional (game, deviation, moves)
\* triple; `game` is the index of the game object in the input list.
PreprocessGame(game, g) ==
  IF Falsy(g.pgn) THEN <<>>
  ELSE LET moves == ParseMoves(g.pgn)
       IN IF moves = <<>> \/ Len(moves[1]) < MIN_MOVES_FOR_ANALYSIS THEN <<>>
          ELSE LET deviation == DetectorFindDeviation(moves[1])
               IN IF deviation = <<>> THEN <<>>
                  ELSE <<[game |-> game,
                          deviation |-> deviation[1],
                          moves |-> moves[1]]>>

RECURSIVE Preprocess(_, _)
\* Phase 1 of analyze_repertoire: the prepared list of games[from..].
Preprocess(gs, from) ==
  IF from > Len(gs) THEN <<>>
  ELSE PreprocessGame(from, gs[from]) \o Preprocess(gs, from + 1)

\* Whether _compute_eval_loss makes the second engine call.
NeedsSecondEval(deviation) ==
  ~(deviation.is_fully_booked \/ deviation.played_move = None)

\* board_after in _compute_eval_loss
BoardAfter(deviation) == Push(deviation.board_at_deviation, deviation.played_move)

\* The loss taken on White's scale whatever the player's colour.
ComputeEvalLossWhitePov(deviation, eval_before_cp, eval_after, color) ==
  IF ~NeedsSecondEval(deviation) THEN 0
  ELSE eval_before_cp - eval_after.score_cp

\* RepertoireAnalyzer._compute_eval_loss, given the second engine result.
ComputeEvalLoss(deviation, eval_before_cp, eval_after, color) ==
  IF ~NeedsSecondEval(deviation) THEN 0
  ELSE eval_before_cp - ScoreForColor(eval_after, color)

\* RepertoireAnalyzer._make_evaluation
MakeEvaluation(g, deviation, eval_result, eval_loss_cp, moves) ==
  [eco_code |-> g.eco_code,
   eco_name |-> IF Falsy(g.eco_name) THEN "Unknown Opening" ELSE g.eco_name,
   my_color |-> g.my_color,
   deviation_ply |-> deviation.deviation_ply,
   deviating_side |-> deviation.deviating_side,
   eval_cp |-> ScoreForColor(eval_result, g.my_color),
   is_fully_booked |-> deviation.is_fully_booked,
   fen_at_deviation |-> deviation.board_at_deviation,
   best_move_uci |-> eval_result.best_move,
   played_move_uci |-> deviation.played_move,
   book_moves_uci |-> deviation.book_moves,
   eval_loss_cp |-> eval_loss_cp,
   game_moves_uci |-> moves]

\* A key made of the opening code alone, without the colour.
StatsKeyWithoutColor(evaluation) ==
  IF Falsy(evaluation.eco_code) THEN "Unknown" ELSE evaluation.eco_code

\* The key of _aggregate: f"{eco_code or 'Unknown'}_{my_color}"
StatsKey(evaluation) ==
  (IF Falsy(evaluation.eco_code) THEN "Unknown" ELSE evaluation.eco_code)
    \o "_" \o evaluation.my_color

\* The OpeningStats _aggregate creates on the first sight of a key.
NewOpeningStats(evaluation) ==
  [eco_code |-> evaluation.eco_code,
   eco_name |-> evaluation.eco_name,
   color |-> evaluation.my_color,
   times_played |-> 0,
   total_eval |-> 0,
   min_eval |-> evaluation.eval_cp,
   max_eval |-> evaluation.eval_cp,
   total_deviation_ply |-> 0,
   player_deviated_count |-> 0,
   evaluations |-> <<>>]

\* The update of _aggregate without the min_eval line: the minimum stays at
\* the score that seeded the bucket.
FoldIntoSeedMin(entry, evaluation) ==
  [entry EXCEPT
     !.times_played = @ + 1,
     !.total_eval = @ + evaluation.eval_cp,
     !.max_eval = Max(@, evaluation.eval_cp),
     !.total_deviation_ply = @ + evaluation.deviation_ply,
     !.evaluations = Append(@, evaluation.eval_cp),
     !.player_deviated_count =
        IF evaluation.deviating_side = evaluation.my_color THEN @ + 1 ELSE @]

\* The update of _aggregate counting every game as a deviation of the player.
FoldIntoAnyDeviation(entry, evaluation) ==
  [entry EXCEPT
     !.times_played = @ + 1,
     !.total_eval = @ + evaluation.eval_cp,
     !.min_eval = Min(@, evaluation.eval_cp),
     !.max_eval = Max(@, evaluation.eval_cp),
     !.total_deviation_ply = @ + evaluation.deviation_ply,
     !.evaluations = Append(@, evaluation.eval_cp),
     !.player_deviated_count = @ + 1]

\* The update _aggregate applies to the entry of the key.
FoldInto(entry, evaluation) ==
  [entry EXCEPT
     !.times_played = @ + 1,
     !.total_eval = @ + evaluation.eval_cp,
     !.min_eval = Min(@, evaluation.eval_cp),
     !.max_eval = Max(@, evaluation.eval_cp),
     !.total_deviation_ply = @ + evaluation.deviation_ply,
     !.evaluations = Append(@, evaluation.eval_cp),
     !.player_deviated_count =
        IF evaluation.deviating_side = evaluation.my_color THEN @ + 1 ELSE @]

\* _aggregate creating a fresh entry on every call, also for a key the
\* map already holds.
AggregateOverwrite(st, evaluation) ==
  LET key == StatsKey(evaluation)
  IN [k \in DOMAIN st \cup {key} |->
        IF k = key THEN FoldInto(NewOpeningStats(evaluation), evaluation)
        ELSE st[k]]

\* RepertoireAnalyzer._aggregate: the stats dict after the call.
Aggregate(st, evaluation) ==
  LET key == StatsKey(evaluation)
      entry == IF key \in DOMAIN st THEN st[key] ELSE NewOpeningStats(evaluation)
  IN [k \in DOMAIN st \cup {key} |->
        IF k = key THEN FoldInto(entry, evaluation) ELSE st[k]]

RECURSIVE AggregateAll(_, _, _)
\* The loop folding a list of evaluations, evs[from..], in list order.
AggregateAll(st, evs, from) ==
  IF from > Len(evs) THEN st
  ELSE AggregateAll(Aggregate(st, evs[from]), evs, from + 1)

RECURSIVE ChunkFromReversed(_, _, _, _)
\* The split inserting each item at the front of its chunk.
ChunkFromReversed(prep, nworkers, b, from) ==
  IF from > Len(prep) THEN <<>>
  ELSE ChunkFromReversed(prep, nworkers, b, from + 1)
         \o (IF (from - 1) % nworkers = b THEN <<prep[from]>> ELSE <<>>)

RECURSIVE ChunkFrom(_, _, _, _)
\* The split loop of _analyze_parallel from item `from` on, for bucket b
\* (0-based): the items i with i mod workers = b, in list order.
ChunkFrom(prep, nworkers, b, from) ==
  IF from > Len(prep) THEN <<>>
  ELSE (IF (from - 1) % nworkers = b THEN <<prep[from]>> ELSE <<>>)
         \o ChunkFrom(prep, nworkers, b, from + 1)

\* The split that stops one item short of the end of the prepared list.
ChunkDropsLast(prep, nworkers, b) ==
  ChunkFrom(SubSeq(prep, 1, Len(prep) - 1), nworkers, b, 1)

\* chunks[b] of _analyze_parallel.
Chunk(prep, nworkers, b) == ChunkFrom(prep, nworkers, b, 1)

\* ------------------------------------------------------------ input pools
\* The game records a run draws its input list from (ChessGame objects).
Catalogue ==
  {[game_url |-> "https://game/1", pgn |-> None, my_color |-> "white",
    eco_code |-> "B90", eco_name |-> "Sicilian Defense"],
   [game_url |-> "https://game/2", pgn |-> "", my_color |-> "black",
    eco_code |-> None, eco_name |-> None],
   [game_url |-> "https://game/3", pgn |-> PgnShort, my_color |-> "white",
    eco_code |-> "B90", eco_name |-> "Sicilian Defense"],
   [game_url |-> "https://game/4", pgn |-> PgnNoResult, my_color |-> "white",
    eco_code |-> "A05", eco_name |-> "Reti Opening"],
   [game_url |-> "https://game/5", pgn |-> PgnBooked, my_color |-> "white",
    eco_code |-> "B90", eco_name |-> "Sicilian Defense"],
   [game_url |-> "https://game/6", pgn |-> PgnBlackDev, my_color |-> "black",
    eco_code |-> None, eco_name |-> None],
   [game_url |-> "", pgn |-> PgnWhiteDev, my_color |-> "white",
    eco_code |-> "B90", eco_name |-> ""]}

\* The cached OpeningEvaluations a run draws cached_evaluations from.
CachedPool ==
  {[eco_code |-> "B90", eco_name |-> "Sicilian Defense", my_color |-> "white",
    deviation_ply |-> 6, deviating_side |-> "black", eval_cp |-> 40,
    is_fully_booked |-> FALSE, fen_at_deviation |-> <<"e2e4", "c7c5">>,
    best_move_uci |-> None, played_move_uci |-> None, book_moves_uci |-> <<>>,
    eval_loss_cp |-> 0, game_moves_uci |-> <<>>]}

\* The evaluator objects: 0 is the analyzer's own (self.stockfish_evaluator),
\* 1..MaxWorkers are the ones _analyze_parallel creates.
EvaluatorIds == 0..MaxWorkers

Workers == 1..MaxWorkers

\* ------------------------------------------------------------------ state
VARIABLES
  games,               \* argument: the input game list
  workers,             \* argument: worker count
  progress_callback,   \* argument: TRUE iff a callback was given
  cached_evaluations,  \* argument: cached OpeningEvaluations
  engine_table,        \* which engine binary stockfish_path runs
  pc,                  \* position of the calling thread
  stats,               \* the stats dict
  prepared,            \* list of (game, deviation, moves)
  total,               \* len(prepared)
  new_evals,           \* list of (game, evaluation)
  completed,           \* completed[0]
  lock,                \* holder of the Lock: 0 (free) or a worker
  chunks,              \* chunks[w]: bucket w-1
  engines,             \* list of started worker evaluators
  evaluators,          \* evaluator objects: created, stockfish_path, depth, engine
  proc,                \* engine process of each evaluator
  wpc,                 \* position of each worker (evaluate_batch)
  wi,                  \* index of each worker in its batch
  wev,                 \* evaluation a worker is about to publish
  wexc,                \* exception that ended a worker's batch
  futures,             \* workers whose batch was submitted
  awaited,             \* futures whose result() returned
  fin_i,               \* index of the cleanup loop over engines
  seq_i,               \* loop index i of _analyze_sequential
  seq_ev,              \* evaluation built by the sequential loop body
  cb_calls,            \* calls received by the progress callback
  engine_calls,        \* evaluate calls received by each evaluator
  pending_exc,         \* exception in flight inside try/finally
  result,              \* outcome of analyze_repertoire
  \* -- one game's loop body against test doubles (analyze_game)
  lg_deviation,        \* the DeviationResult the detector returned
  lg_color,            \* game.my_color
  lg_pc,               \* position inside the loop body
  lg_calls,            \* positions passed to evaluator.evaluate, in order
  lg_results,          \* EvalResults evaluator.evaluate returned, in order
  lg_loss,             \* eval_loss_cp, once computed
  \* -- _aggregate folding one collection in two orders
  fold_a,              \* the collection, in a first order
  fold_b,              \* the same collection, in a second order
  fold_ia,             \* evaluations of fold_a folded so far
  fold_ib,             \* evaluations of fold_b folded so far
  fold_sa,             \* stats map the first order is folded into
  fold_sb,             \* stats map the second order is folded into
  \* -- one StockfishEvaluator and its client
  sf,                  \* the evaluator object: stockfish_path, depth, _engine
  sf_proc,             \* the engine process: none, running, quit, quit_failed
  sf_quits,            \* number of quit() calls the engine has received
  sf_sent,             \* positions sent to the engine by analyse
  sf_pc,               \* where the client is: outside or inside a with block
  sf_out,              \* outcome of the client's last operation
  \* -- GameCache: the opening_evaluations table and its client
  cache_rows,          \* the rows of opening_evaluations
  cache_log,           \* the (url, depth, evaluation) saves made, in order
  cache_out,           \* outcome of the client's last operation
  \* -- run_analysis: its arguments and locals
  run_games,           \* argument games
  run_workers,         \* argument workers
  run_cache,           \* argument cache: none, a GameCache or a MagicMock
  run_mock,            \* cache.get_cached_evaluations.return_value of a mock
  force_refresh,       \* argument force_refresh
  run_pc,              \* position inside run_analysis
  cached_evals,        \* local cached_evals
  uncached_games,      \* local uncached_games
  opening_stats,       \* local opening_stats
  run_saved,           \* batches passed to cache.save_evaluations_batch
  run_result           \* outcome of run_analysis

main_vars == <<games, workers, progress_callback, cached_evaluations, engine_table,
               pc, stats, prepared, total, new_evals, completed, lock, chunks,
               engines, evaluators, proc, wpc, wi, wev, wexc, futures, awaited,
               fin_i, seq_i, seq_ev, cb_calls, engine_calls, pending_exc, result>>

loss_vars == <<lg_deviation, lg_color, lg_pc, lg_calls, lg_results, lg_loss>>

\* The variables of the component models that analyze_repertoire never touches.
fold_vars == <<fold_a, fold_b, fold_ia, fold_ib, fold_sa, fold_sb>>

dev_vars == <<detector, dev_n, dev_last, dev_kept>>

sf_vars == <<sf, sf_proc, sf_quits, sf_sent, sf_pc, sf_out>>

cache_vars == <<cache_rows, cache_log, cache_out>>

run_vars == <<run_games, run_workers, run_cache, run_mock, force_refresh, run_pc,
              cached_evals, uncached_games, opening_stats, run_saved, run_result>>

unit_vars == <<loss_vars, fold_vars, dev_vars, sf_vars, cache_vars, run_vars>>

vars == <<main_vars, unit_vars>>

args == <<games, workers, progress_callback, cached_evaluations, engine_table>>

par_vars == <<lock, chunks, engines, wpc, wi, wev, wexc, futures, awaited,
              fin_i, completed, pending_exc>>

seq_vars == <<seq_i, seq_ev>>

NoEvaluation == <<>>

\* StockfishEvaluator.__init__
NewEvaluator(stockfish_path, depth) ==
  [created |-> TRUE, stockfish_path |-> stockfish_path, depth |-> depth,
   engine |-> FALSE]

NotCreated ==
  [created |-> FALSE, stockfish_path |-> None, depth |-> 0, engine |-> FALSE]

\* analyze_game is not running.
LossIdle ==
  /\ lg_deviation = <<>>
  /\ lg_color = None
  /\ lg_pc = "idle"
  /\ lg_calls = <<>>
  /\ lg_results = <<>>
  /\ lg_loss = <<>>

\* None of the component models is running.
\* No fold is under way.
FoldIdle ==
  /\ fold_a = <<>>
  /\ fold_b = <<>>
  /\ fold_ia = 0
  /\ fold_ib = 0
  /\ fold_sa = <<>>
  /\ fold_sb = <<>>

\* OpeningDetector.__init__
NewDetector(book_path) == [book_path |-> book_path]

\* No OpeningDetector exists.
DevIdle ==
  /\ detector = <<>>
  /\ dev_n = 0
  /\ dev_last = <<>>
  /\ dev_kept = <<>>

\* No stand-alone StockfishEvaluator exists.
SfIdle ==
  /\ sf = <<>>
  /\ sf_proc = "none"
  /\ sf_quits = 0
  /\ sf_sent = <<>>
  /\ sf_pc = "idle"
  /\ sf_out = <<>>

\* No GameCache is open.
CacheIdle ==
  /\ cache_rows = {}
  /\ cache_log = <<>>
  /\ cache_out = <<>>

\* run_analysis is not under observation.
RunIdle ==
  /\ run_games = <<>>
  /\ run_workers = 0
  /\ run_cache = "none"
  /\ run_mock = {}
  /\ force_refresh = FALSE
  /\ run_pc = "idle"
  /\ cached_evals = <<>>
  /\ uncached_games = <<>>
  /\ opening_stats = <<>>
  /\ run_saved = <<>>
  /\ run_result = [kind |-> "none", exc |-> None]

UnitIdle == LossIdle /\ FoldIdle /\ DevIdle /\ SfIdle /\ CacheIdle /\ RunIdle

\* State after construction: the caller (run_analysis) has entered the
\* analyzer's own evaluator and is about to call analyze_repertoire.
MainStart ==
  /\ pc = "call"
  /\ stats = <<>>
  /\ prepared = <<>>
  /\ total = 0
  /\ new_evals = <<>>
  /\ completed = 0
  /\ lock = 0
  /\ chunks = [w \in Workers |-> <<>>]
  /\ engines = <<>>
  /\ evaluators = [e \in EvaluatorIds |->
                     IF e = 0
                     THEN [NewEvaluator("stockfish", DefaultDepth)
                             EXCEPT !.engine = TRUE]
                     ELSE NotCreated]
  /\ proc = [e \in EvaluatorIds |-> IF e = 0 THEN "running" ELSE "none"]
  /\ wpc = [w \in Workers |-> "idle"]
  /\ wi = [w \in Workers |-> 1]
  /\ wev = [w \in Workers |-> NoEvaluation]
  /\ wexc = [w \in Workers |-> None]
  /\ futures = {}
  /\ awaited = {}
  /\ fin_i = 1
  /\ seq_i = 0
  /\ seq_ev = NoEvaluation
  /\ cb_calls = <<>>
  /\ engine_calls = [e \in EvaluatorIds |-> <<>>]
  /\ pending_exc = None
  /\ result = [kind |-> "none", exc |-> None]

Init ==
  /\ games \in SeqsUpTo(Catalogue, MaxGames)
  /\ workers \in 0..MaxWorkers
  /\ progress_callback \in BOOLEAN
  /\ cached_evaluations \in SeqsUpTo(CachedPool, MaxCached)
  /\ engine_table \in EngineTables
  /\ MainStart
  /\ UnitIdle

\* analyze_repertoire is not called: an analyzer with no games to analyse.
MainIdle ==
  /\ games = <<>>
  /\ workers = 0
  /\ progress_callback = FALSE
  /\ cached_evaluations = <<>>
  /\ engine_table = 1
  /\ MainStart

\* ------------------------------------------------------ evaluating a game
\* StockfishEvaluator.evaluate on evaluator e, when the engine answers.
Evaluate(e, board) ==
  EvalResultOf(EngineInfo(engine_table, board), evaluators[e].depth)

\* The OpeningEvaluation the loop body builds for a prepared item on
\* evaluator e: evaluate, _compute_eval_loss, _make_evaluation.
GameEvaluation(e, item) ==
  LET g == games[item.game]
      eval_result == Evaluate(e, item.deviation.board_at_deviation)
      eval_cp == ScoreForColor(eval_result, g.my_color)
      eval_loss_cp ==
        ComputeEvalLoss(item.deviation, eval_cp,
                        Evaluate(e, BoardAfter(item.deviation)), g.my_color)
  IN MakeEvaluation(g, item.deviation, eval_result, eval_loss_cp, item.moves)

\* The ways the engine calls of one loop body can end: every call answers,
\* or the first or the second analyse raises.
EvalOutcomes(item) ==
  {"ok", "raise1"} \cup
    (IF NeedsSecondEval(item.deviation) THEN {"raise2"} ELSE {})

\* The evaluate calls that reach the engine for an item under an outcome.
EngineCallsOf(item, outcome) ==
  LET first == [game |-> item.game, board |-> item.deviation.board_at_deviation]
      second == [game |-> item.game, board |-> BoardAfter(item.deviation)]
  IN IF outcome = "raise1" \/ ~NeedsSecondEval(item.deviation)
     THEN <<first>>
     ELSE <<first, second>>

Raised(exc) == [kind |-> "raised", exc |-> exc]

Returned == [kind |-> "returned", exc |-> None]

\* new_evals.insert(0, (game, evaluation))
PrependEval(evals, game, evaluation) ==
  <<[game |-> game, evaluation |-> evaluation]>> \o evals

\* new_evals.append((game, evaluation))
AppendEval(evals, game, evaluation) ==
  Append(evals, [game |-> game, evaluation |-> evaluation])

\* progress_callback(i, total): the 0-based index reported.
SeqProgressArgsZeroBased(i, n) == <<i, n>>

\* The arguments of progress_callback(i + 1, total) in the sequential loop.
SeqProgressArgs(i, n) == <<i + 1, n>>

\* The counter left as it was.
NextCompletedStale(c) == c

\* completed[0] += 1
NextCompleted(c) == c + 1

\* The early return without the progress call.
EarlyReturnCallsSilent(calls) == calls

\* if progress_callback: progress_callback(0, 0), when total == 0: the calls
\* the callback has received afterwards.
EarlyReturnCalls(calls) ==
  IF progress_callback THEN Append(calls, <<0, 0>>) ELSE calls

\* ------------------------------------------------------ analyze_repertoire
\* Lines 189-214 up to the dispatch: fold the cached evaluations, preprocess
\* every game, and return at once when nothing survives.
Prepare ==
  /\ pc = "call"
  /\ LET st == AggregateAll(<<>>, cached_evaluations, 1)
         prep == Preprocess(games, 1)
     IN /\ stats' = st
        /\ prepared' = prep
        /\ total' = Len(prep)
        /\ IF Len(prep) = 0
           THEN /\ cb_calls' = EarlyReturnCalls(cb_calls)
                /\ result' = Returned
                /\ pc' = "done"
           ELSE /\ cb_calls' = cb_calls
                /\ result' = result
                /\ pc' = IF workers <= 1 THEN "seq_progress" ELSE "par_split"
  /\ UNCHANGED <<args, unit_vars, new_evals, evaluators, proc, engine_calls,
                 par_vars, seq_vars>>

\* ------------------------------------------------------ _analyze_sequential
\* if progress_callback: progress_callback(i + 1, total)
SeqProgress ==
  /\ pc = "seq_progress"
  /\ cb_calls' = IF progress_callback
                 THEN Append(cb_calls, SeqProgressArgs(seq_i, total))
                 ELSE cb_calls
  /\ pc' = "seq_eval"
  /\ UNCHANGED <<args, unit_vars, stats, prepared, total, new_evals, evaluators, proc,
                 engine_calls, result, par_vars, seq_vars>>

\* The evaluate calls and _make_evaluation of iteration i.
SeqEvaluate ==
  /\ pc = "seq_eval"
  /\ LET item == prepared[seq_i + 1]
     IN IF ~evaluators[0].engine
        THEN /\ result' = Raised("RuntimeError")
             /\ pc' = "done"
             /\ UNCHANGED <<engine_calls, seq_ev>>
        ELSE \E outcome \in EvalOutcomes(item) :
               /\ engine_calls' =
                    [engine_calls EXCEPT ![0] = @ \o EngineCallsOf(item, outcome)]
               /\ IF outcome = "ok"
                  THEN /\ seq_ev' = <<GameEvaluation(0, item)>>
                       /\ pc' = "seq_fold"
                       /\ result' = result
                  ELSE /\ seq_ev' = seq_ev
                       /\ pc' = "done"
                       /\ result' = Raised("EngineError")
  /\ UNCHANGED <<args, unit_vars, stats, prepared, total, new_evals, evaluators, proc,
                 cb_calls, seq_i, par_vars>>

\* self._aggregate(stats, evaluation); new_evals.append(...); next i, or
\* return new_evals and then (stats, new_evals).
SeqFold ==
  /\ pc = "seq_fold"
  /\ stats' = Aggregate(stats, seq_ev[1])
  /\ new_evals' = AppendEval(new_evals, prepared[seq_i + 1].game, seq_ev[1])
  /\ seq_i' = seq_i + 1
  /\ seq_ev' = NoEvaluation
  /\ IF seq_i + 1 < Len(prepared)
     THEN pc' = "seq_progress" /\ result' = result
     ELSE pc' = "done" /\ result' = Returned
  /\ UNCHANGED <<args, unit_vars, prepared, total, evaluators, proc, cb_calls,
                 engine_calls, par_vars>>

\* -------------------------------------------------------- _analyze_parallel
\* Lines 258-261: the round-robin split; chunks[w] is bucket w - 1.
ParSplit ==
  /\ pc = "par_split"
  /\ chunks' = [w \in Workers |->
                  IF w <= workers THEN Chunk(prepared, workers, w - 1) ELSE <<>>]
  /\ pc' = "par_spawn"
  /\ UNCHANGED <<args, unit_vars, stats, prepared, total, new_evals, completed, lock,
                 engines, evaluators, proc, wpc, wi, wev, wexc, futures,
                 awaited, fin_i, seq_vars, cb_calls, engine_calls,
                 pending_exc, result>>

\* One iteration of the spawn loop: construct an evaluator with the path and
\* depth of the analyzer's own, enter it (popen_uci may raise), append it.
StartEngine ==
  /\ pc = "par_spawn"
  /\ Len(engines) < workers
  /\ LET e == Len(engines) + 1
         eng == NewEvaluator(evaluators[0].stockfish_path, evaluators[0].depth)
     IN \E started \in BOOLEAN :
          IF started
          THEN /\ evaluators' = [evaluators EXCEPT ![e] = [eng EXCEPT !.engine = TRUE]]
               /\ proc' = [proc EXCEPT ![e] = "running"]
               /\ engines' = Append(engines, e)
               /\ UNCHANGED <<pc, pending_exc>>
          ELSE /\ evaluators' = [evaluators EXCEPT ![e] = eng]
               /\ pending_exc' = "StartError"
               /\ pc' = "finally"
               /\ UNCHANGED <<proc, engines>>
  /\ UNCHANGED <<args, unit_vars, stats, prepared, total, new_evals, completed, lock,
                 chunks, wpc, wi, wev, wexc, futures, awaited, fin_i,
                 seq_vars, cb_calls, engine_calls, result>>

\* pool.submit(evaluate_batch, chunk, engine) for every non-empty chunk.
Submit ==
  /\ pc = "par_spawn"
  /\ Len(engines) = workers
  /\ LET submitted == {w \in 1..workers : chunks[w] # <<>>}
     IN /\ futures' = submitted
        /\ wpc' = [w \in Workers |-> IF w \in submitted THEN "eval" ELSE "idle"]
  /\ pc' = "as_completed"
  /\ UNCHANGED <<args, unit_vars, stats, prepared, total, new_evals, completed, lock,
                 chunks, engines, evaluators, proc, wi, wev, wexc, awaited,
                 fin_i, seq_vars, cb_calls, engine_calls, pending_exc, result>>

\* Every batch handed the evaluator started first.
WorkerEngineShared(w) == engines[1]

\* zip(chunks, engines): the evaluator submitted with the batch of worker w.
WorkerEngine(w) == engines[w]

\* evaluate_batch, lines 244-249: the engine calls for the next game of the
\* batch on the worker's own evaluator, then _make_evaluation.
WEvaluate(w) ==
  /\ wpc[w] = "eval"
  /\ LET item == chunks[w][wi[w]]
         e == WorkerEngine(w)
     IN IF ~evaluators[e].engine
        THEN /\ wpc' = [wpc EXCEPT ![w] = "raised"]
             /\ wexc' = [wexc EXCEPT ![w] = "RuntimeError"]
             /\ UNCHANGED <<engine_calls, wev>>
        ELSE \E outcome \in EvalOutcomes(item) :
               /\ engine_calls' =
                    [engine_calls EXCEPT ![e] = @ \o EngineCallsOf(item, outcome)]
               /\ IF outcome = "ok"
                  THEN /\ wev' = [wev EXCEPT ![w] = <<GameEvaluation(e, item)>>]
                       /\ wpc' = [wpc EXCEPT ![w] = "lock"]
                       /\ wexc' = wexc
                  ELSE /\ wev' = wev
                       /\ wpc' = [wpc EXCEPT ![w] = "raised"]
                       /\ wexc' = [wexc EXCEPT ![w] = "EngineError"]
  /\ UNCHANGED <<args, unit_vars, pc, stats, prepared, total, new_evals, completed, lock,
                 chunks, engines, evaluators, proc, wi, futures, awaited,
                 fin_i, seq_vars, cb_calls, pending_exc, result>>

\* The lock taken whether or not another worker holds it.
WAcquireBarging(w) ==
  /\ wpc[w] = "lock"
  /\ lock' = w
  /\ wpc' = [wpc EXCEPT ![w] = "cs_fold"]
  /\ UNCHANGED <<args, unit_vars, pc, stats, prepared, total, new_evals, completed,
                 chunks, engines, evaluators, proc, wi, wev, wexc, futures,
                 awaited, fin_i, seq_vars, cb_calls, engine_calls,
                 pending_exc, result>>

\* The critical section entered without taking the lock.
WAcquireUnlocked(w) ==
  /\ wpc[w] = "lock"
  /\ lock' = lock
  /\ wpc' = [wpc EXCEPT ![w] = "cs_fold"]
  /\ UNCHANGED <<args, unit_vars, pc, stats, prepared, total, new_evals, completed,
                 chunks, engines, evaluators, proc, wi, wev, wexc, futures,
                 awaited, fin_i, seq_vars, cb_calls, engine_calls,
                 pending_exc, result>>

\* with lock: (acquire)
WAcquire(w) ==
  /\ wpc[w] = "lock"
  /\ lock = 0
  /\ lock' = w
  /\ wpc' = [wpc EXCEPT ![w] = "cs_fold"]
  /\ UNCHANGED <<args, unit_vars, pc, stats, prepared, total, new_evals, completed,
                 chunks, engines, evaluators, proc, wi, wev, wexc, futures,
                 awaited, fin_i, seq_vars, cb_calls, engine_calls,
                 pending_exc, result>>

\* self._aggregate(stats, evaluation)
WFold(w) ==
  /\ wpc[w] = "cs_fold"
  /\ stats' = Aggregate(stats, wev[w][1])
  /\ wpc' = [wpc EXCEPT ![w] = "cs_append"]
  /\ UNCHANGED <<args, unit_vars, pc, prepared, total, new_evals, completed, lock,
                 chunks, engines, evaluators, proc, wi, wev, wexc, futures,
                 awaited, fin_i, seq_vars, cb_calls, engine_calls,
                 pending_exc, result>>

\* new_evals.append((game, evaluation))
WAppend(w) ==
  /\ wpc[w] = "cs_append"
  /\ new_evals' = AppendEval(new_evals, chunks[w][wi[w]].game, wev[w][1])
  /\ wpc' = [wpc EXCEPT ![w] = "cs_count"]
  /\ UNCHANGED <<args, unit_vars, pc, stats, prepared, total, completed, lock,
                 chunks, engines, evaluators, proc, wi, wev, wexc, futures,
                 awaited, fin_i, seq_vars, cb_calls, engine_calls,
                 pending_exc, result>>

\* The end of the critical section leaving the lock held.
WCountKeepsLock(w) ==
  /\ wpc[w] = "cs_count"
  /\ completed' = NextCompleted(completed)
  /\ cb_calls' = IF progress_callback
                 THEN Append(cb_calls, <<completed', total>>)
                 ELSE cb_calls
  /\ lock' = lock
  /\ wev' = [wev EXCEPT ![w] = NoEvaluation]
  /\ wi' = [wi EXCEPT ![w] = @ + 1]
  /\ wpc' = [wpc EXCEPT ![w] =
               IF wi[w] < Len(chunks[w]) THEN "eval" ELSE "done"]
  /\ UNCHANGED <<args, unit_vars, pc, stats, prepared, total, new_evals, chunks,
                 engines, evaluators, proc, wexc, futures, awaited, fin_i,
                 seq_vars, engine_calls, pending_exc, result>>

\* completed[0] += 1; progress_callback(completed[0], total); release the
\* lock; continue with the next game of the batch or return.
WCount(w) ==
  /\ wpc[w] = "cs_count"
  /\ completed' = NextCompleted(completed)
  /\ cb_calls' = IF progress_callback
                 THEN Append(cb_calls, <<completed', total>>)
                 ELSE cb_calls
  /\ lock' = 0
  /\ wev' = [wev EXCEPT ![w] = NoEvaluation]
  /\ wi' = [wi EXCEPT ![w] = @ + 1]
  /\ wpc' = [wpc EXCEPT ![w] =
               IF wi[w] < Len(chunks[w]) THEN "eval" ELSE "done"]
  /\ UNCHANGED <<args, unit_vars, pc, stats, prepared, total, new_evals, chunks,
                 engines, evaluators, proc, wexc, futures, awaited, fin_i,
                 seq_vars, engine_calls, pending_exc, result>>

Finished(w) == wpc[w] \in {"done", "raised"}

\* for future in as_completed(futures): future.result()
AwaitFuture ==
  /\ pc = "as_completed"
  /\ \E w \in futures \ awaited :
       /\ Finished(w)
       /\ IF wpc[w] = "raised"
          THEN /\ pending_exc' = wexc[w]
               /\ pc' = "shutdown"
               /\ awaited' = awaited
          ELSE /\ awaited' = awaited \cup {w}
               /\ pc' = IF awaited' = futures THEN "shutdown" ELSE "as_completed"
               /\ pending_exc' = pending_exc
  /\ UNCHANGED <<args, unit_vars, stats, prepared, total, new_evals, completed, lock,
                 chunks, engines, evaluators, proc, wpc, wi, wev, wexc,
                 futures, fin_i, seq_vars, cb_calls, engine_calls, result>>

\* Leaving the pool without waiting for the batches still running.
PoolShutdownNoWait ==
  /\ pc = "shutdown"
  /\ pc' = "finally"
  /\ UNCHANGED <<args, unit_vars, stats, prepared, total, new_evals, completed, lock,
                 chunks, engines, evaluators, proc, wpc, wi, wev, wexc,
                 futures, awaited, fin_i, seq_vars, cb_calls, engine_calls,
                 pending_exc, result>>

\* Leaving `with ThreadPoolExecutor(...)`: shutdown(wait=True) returns once
\* every submitted batch has finished.
PoolShutdown ==
  /\ pc = "shutdown"
  /\ \A w \in futures : Finished(w)
  /\ pc' = "finally"
  /\ UNCHANGED <<args, unit_vars, stats, prepared, total, new_evals, completed, lock,
                 chunks, engines, evaluators, proc, wpc, wi, wev, wexc,
                 futures, awaited, fin_i, seq_vars, cb_calls, engine_calls,
                 pending_exc, result>>

\* One iteration of the cleanup loop: eng.__exit__(None, None, None).  A
\* quit() that raises leaves the finally block at once.
StopEngine ==
  /\ pc = "finally"
  /\ fin_i <= Len(engines)
  /\ LET e == engines[fin_i]
     IN IF ~evaluators[e].engine
        THEN /\ fin_i' = fin_i + 1
             /\ UNCHANGED <<evaluators, proc, pc, result>>
        ELSE \E quit_ok \in BOOLEAN :
               IF quit_ok
               THEN /\ evaluators' = [evaluators EXCEPT ![e].engine = FALSE]
                    /\ proc' = [proc EXCEPT ![e] = "quit"]
                    /\ fin_i' = fin_i + 1
                    /\ UNCHANGED <<pc, result>>
               ELSE /\ proc' = [proc EXCEPT ![e] = "quit_failed"]
                    /\ result' = Raised("StopError")
                    /\ pc' = "done"
                    /\ UNCHANGED <<evaluators, fin_i>>
  /\ UNCHANGED <<args, unit_vars, stats, prepared, total, new_evals, completed, lock,
                 chunks, engines, wpc, wi, wev, wexc, futures, awaited,
                 seq_vars, cb_calls, engine_calls, pending_exc>>

\* End of the finally block: re-raise the exception in flight, or
\* return new_evals and then (stats, new_evals).
ParReturn ==
  /\ pc = "finally"
  /\ fin_i > Len(engines)
  /\ result' = IF pending_exc # None THEN Raised(pending_exc) ELSE Returned
  /\ pc' = "done"
  /\ UNCHANGED <<args, unit_vars, stats, prepared, total, new_evals, completed, lock,
                 chunks, engines, evaluators, proc, wpc, wi, wev, wexc,
                 futures, awaited, fin_i, seq_vars, cb_calls, engine_calls,
                 pending_exc>>

Next ==
  \/ Prepare
  \/ SeqProgress
  \/ SeqEvaluate
  \/ SeqFold
  \/ ParSplit
  \/ StartEngine
  \/ Submit
  \/ \E w \in Workers : WEvaluate(w)
  \/ \E w \in Workers : WAcquire(w)
  \/ \E w \in Workers : WFold(w)
  \/ \E w \in Workers : WAppend(w)
  \/ \E w \in Workers : WCount(w)
  \/ AwaitFuture
  \/ PoolShutdown
  \/ StopEngine
  \/ ParReturn

Spec == Init /\ [][Next]_vars

\* =================================================================== claims
\* ----------------------------------------------------- vocabulary of claims
Done == pc = "done"

ReturnedOk == result.kind = "returned"

Parallel == workers > 1

\* The input indices of the games of a list of (game, ...) entries.
GamesOf(entries) == [j \in 1..Len(entries) |-> entries[j].game]

\* A game the analysis must skip: notation absent or empty, fewer than four
\* plies, or no result from the detector.
Skippable(g) ==
  \/ g.pgn = None
  \/ g.pgn = ""
  \/ Len(MainlineMoves(g.pgn)) < 4
  \/ DetectorFindDeviation(MainlineMoves(g.pgn)) = <<>>

RECURSIVE SurvivorsFrom(_)
\* The input indices >= i of the games that are not skippable, ascending.
SurvivorsFrom(i) ==
  IF i > Len(games) THEN <<>>
  ELSE (IF Skippable(games[i]) THEN <<>> ELSE <<i>>) \o SurvivorsFrom(i + 1)

Survivors == SurvivorsFrom(1)

RECURSIVE SumTimesPlayed(_, _)
SumTimesPlayed(st, keys) ==
  IF keys = {} THEN 0
  ELSE LET k == CHOOSE x \in keys : TRUE
       IN st[k].times_played + SumTimesPlayed(st, keys \ {k})

\* Number of evaluations folded into a stats map.
Folded(st) == SumTimesPlayed(st, DOMAIN st)

\* The numeric fields of every bucket of a stats map.
NumericView(st) ==
  [k \in DOMAIN st |->
     [times_played |-> st[k].times_played,
      total_eval |-> st[k].total_eval,
      min_eval |-> st[k].min_eval,
      max_eval |-> st[k].max_eval,
      total_deviation_ply |-> st[k].total_deviation_ply,
      player_deviated_count |-> st[k].player_deviated_count]]

\* Position of the entry of input game i in the new-evaluations list, 0 if
\* there is none.
PosOf(i) ==
  IF \E j \in 1..Len(new_evals) : new_evals[j].game = i
  THEN CHOOSE j \in 1..Len(new_evals) : new_evals[j].game = i
  ELSE 0

\* C1: in parallel mode, on successful return every game that survived
\* preprocessing has exactly one entry in the new-evaluations list, whose
\* length is the number of surviving games, whatever the interleaving and
\* the worker count.
C1_ParallelEveryGameOnce ==
  (Parallel /\ Done /\ ReturnedOk) =>
    /\ Len(new_evals) = Len(prepared)
    /\ \A k \in 1..Len(prepared) :
         Cardinality({j \in 1..Len(new_evals) :
                        new_evals[j].game = prepared[k].game}) = 1

\* A parallel run with more workers than surviving games returned two
\* entries, in an order other than the input order.
C1_Witness ==
  /\ Parallel /\ Done /\ ReturnedOk
  /\ workers > Len(prepared)
  /\ Len(new_evals) = 2
  /\ new_evals[1].game > new_evals[2].game

\* C2: in parallel mode the callback is invoked once per completed game: its
\* k-th call carries (k, total), the number of calls equals the completed
\* counter and, outside the critical section, the number of published
\* games; a successful run makes exactly total calls.
C2_ParallelProgressPerGame ==
  (Parallel /\ progress_callback /\ Len(prepared) > 0) =>
    /\ \A k \in 1..Len(cb_calls) : cb_calls[k] = <<k, total>>
    /\ Len(cb_calls) = completed
    /\ lock = 0 => Len(cb_calls) = Len(new_evals)
    /\ (Done /\ ReturnedOk) => Len(cb_calls) = Len(prepared)

\* A successful parallel run in which one worker completed two games of its
\* bucket and another worker one: three calls for two buckets.
C2_Witness ==
  /\ Parallel /\ progress_callback /\ Done /\ ReturnedOk
  /\ Len(cb_calls) = 3
  /\ Cardinality(futures) = 2

\* C3: in the parallel path no started engine process is still running when
\* analyze_repertoire has returned or raised, on every exit path.
C3_NoEngineLeaked ==
  (Parallel /\ Done) => \A e \in Workers : proc[e] # "running"

\* C4: when an engine evaluation raised in a worker, analyze_repertoire ends
\* by raising that failure, without retrying a game, after every submitted
\* worker has finished, and with every engine stopped.
C4_EvaluationFailureIsFatal ==
  (Parallel /\ Done /\ \E w \in futures : wpc[w] = "raised") =>
    /\ result.kind = "raised"
    /\ \E w \in futures : wpc[w] = "raised" /\ result.exc = wexc[w]
    /\ \A w \in futures : Finished(w)
    /\ \A e \in Workers :
         /\ proc[e] # "running"
         /\ \A j, k \in 1..Len(engine_calls[e]) :
              engine_calls[e][j] = engine_calls[e][k] => j = k

\* The statistics a sequential pass over the prepared games produces: the
\* cached evaluations folded first, then every game in input order.
SequentialStats ==
  AggregateAll(AggregateAll(<<>>, cached_evaluations, 1),
               [k \in 1..Len(prepared) |-> GameEvaluation(0, prepared[k])], 1)

\* C5: the statistics of a successful run have the same keys and the same
\* numeric fields per key as those of the sequential pass in input order,
\* for every worker count and every interleaving of the workers.
C5_ParallelStatsEqualSequential ==
  (Done /\ ReturnedOk) => NumericView(stats) = NumericView(SequentialStats)

\* A parallel run published two games of one bucket of the statistics, with
\* different scores, in the reverse of their input order.
C5_Witness ==
  /\ Parallel /\ Done /\ ReturnedOk
  /\ \E j, k \in 1..Len(new_evals) :
       /\ j < k
       /\ new_evals[j].game > new_evals[k].game
       /\ StatsKey(new_evals[j].evaluation) = StatsKey(new_evals[k].evaluation)
       /\ new_evals[j].evaluation.eval_cp # new_evals[k].evaluation.eval_cp

\* C6: in sequential mode the new-evaluations list holds the surviving games
\* in input order: at every moment a prefix of the survivors, and on return
\* all of them.
C6_SequentialInputOrder ==
  (~Parallel /\ pc # "call") =>
    /\ Len(new_evals) <= Len(Survivors)
    /\ GamesOf(new_evals) = SubSeq(Survivors, 1, Len(new_evals))
    /\ (Done /\ ReturnedOk) => GamesOf(new_evals) = Survivors

\* A sequential run returned two games that had a skipped game before them.
C6_Witness ==
  /\ ~Parallel /\ Done /\ ReturnedOk
  /\ Len(new_evals) = 2
  /\ new_evals[1].game = 2
  /\ new_evals[2].game = 3

\* C7: in sequential mode with a callback, the k-th call carries (k, total);
\* the call for a game precedes its first engine evaluation and follows the
\* fold of the previous game; a successful run makes exactly total calls.
C7_SequentialProgressBeforeEvaluation ==
  (~Parallel /\ progress_callback /\ Len(prepared) > 0) =>
    /\ \A k \in 1..Len(cb_calls) : cb_calls[k] = <<k, Len(prepared)>>
    /\ \A c \in 1..Len(engine_calls[0]) :
         \E k \in 1..Len(cb_calls) : prepared[k].game = engine_calls[0][c].game
    /\ Len(new_evals) <= Len(cb_calls)
    /\ Len(cb_calls) <= Len(new_evals) + 1
    /\ Folded(stats) = Len(cached_evaluations) + Len(new_evals)
    /\ (Done /\ ReturnedOk) => Len(cb_calls) = Len(prepared)

\* The callback has been called for the second game, which is folded, and
\* its engine evaluations are made.
C7_Witness ==
  /\ ~Parallel /\ progress_callback
  /\ Len(cb_calls) = 2
  /\ Len(new_evals) = 2
  /\ Len(engine_calls[0]) >= 3

\* C8: in parallel mode the prepared item at index i is in bucket i mod
\* workers, and two games of one bucket are published in their input order.
C8_BucketOrderPreserved ==
  (Parallel /\ pc \notin {"call", "par_split"}) =>
    /\ \A k \in 1..Len(prepared) :
         \E j \in 1..Len(chunks[((k - 1) % workers) + 1]) :
            chunks[((k - 1) % workers) + 1][j] = prepared[k]
    /\ \A w \in Workers :
         \A j \in 1..Len(chunks[w]) :
            \E k \in 1..Len(prepared) :
               (k - 1) % workers = w - 1 /\ chunks[w][j] = prepared[k]
    /\ \A a, b \in 1..Len(prepared) :
         (a < b /\ (a - 1) % workers = (b - 1) % workers
            /\ PosOf(prepared[b].game) # 0) =>
              /\ PosOf(prepared[a].game) # 0
              /\ PosOf(prepared[a].game) < PosOf(prepared[b].game)

\* Two buckets, three games: the second game was published first, and the
\* first and third (same bucket) in their input order.
C8_Witness ==
  /\ Parallel /\ workers = 2
  /\ GamesOf(new_evals) = <<2, 1, 3>>

\* C9: a skippable game never reaches the evaluation pass: after
\* preprocessing the prepared games are exactly the non-skippable ones, the
\* callback's total counts only those, no engine call, list entry or folded
\* evaluation belongs to a skipped game, a run in which every game is
\* skipped returns, and a game of exactly four plies with a deviation
\* result is prepared.
C9_SkippedGamesLeaveNoTrace ==
  (pc # "call") =>
    /\ GamesOf(prepared) = Survivors
    /\ \A k \in 1..Len(cb_calls) : cb_calls[k][2] = Len(Survivors)
    /\ \A e \in EvaluatorIds : \A c \in 1..Len(engine_calls[e]) :
         ~Skippable(games[engine_calls[e][c].game])
    /\ \A j \in 1..Len(new_evals) : ~Skippable(games[new_evals[j].game])
    /\ lock = 0 => Folded(stats) = Len(cached_evaluations) + Len(new_evals)
    /\ (\A i \in 1..Len(games) : Skippable(games[i])) => (Done /\ ReturnedOk)
    /\ \A i \in 1..Len(games) :
         (/\ Len(MainlineMoves(games[i].pgn)) = 4
          /\ DetectorFindDeviation(MainlineMoves(games[i].pgn)) # <<>>)
           => \E k \in 1..Len(prepared) : prepared[k].game = i

\* A run over a game without notation, a game the detector has no result
\* for and a four-ply game returned the four-ply game alone.
C9_Witness ==
  /\ Done /\ ReturnedOk
  /\ Len(games) = 3
  /\ games[1].pgn = None
  /\ games[2].pgn = PgnNoResult
  /\ games[3].pgn = PgnBooked
  /\ GamesOf(new_evals) = <<3>>

\* C10: when no game survives preprocessing, for any worker count, no engine
\* is started, no evaluation is made, the callback (if given) is called
\* exactly once with (0, 0), and the result is the fold of exactly the
\* cached evaluations with an empty new-evaluations list.
C10_NothingSurvives ==
  (pc # "call" /\ \A i \in 1..Len(games) : Skippable(games[i])) =>
    /\ Done /\ ReturnedOk
    /\ new_evals = <<>>
    /\ \A e \in EvaluatorIds : engine_calls[e] = <<>>
    /\ engines = <<>>
    /\ \A e \in Workers : proc[e] = "none" /\ ~evaluators[e].created
    /\ cb_calls = IF progress_callback THEN << <<0, 0>> >> ELSE <<>>
    /\ Folded(stats) = Len(cached_evaluations)
    /\ \A k \in DOMAIN stats :
         \E c \in 1..Len(cached_evaluations) :
            StatsKey(cached_evaluations[c]) = k
    /\ \A c \in 1..Len(cached_evaluations) :
         StatsKey(cached_evaluations[c]) \in DOMAIN stats

\* A parallel call with a callback, a cached evaluation and two games, both
\* skipped, has returned.
C10_Witness ==
  /\ Done /\ Parallel /\ progress_callback
  /\ Len(games) = 2
  /\ \A i \in 1..Len(games) : Skippable(games[i])
  /\ cached_evaluations # <<>>
  /\ Folded(stats) = 1

\* ================================================== one game against doubles
\* The loop body that analyses one game (analyze_game, and the bodies of
\* _analyze_sequential and evaluate_batch), run against a detector that may
\* return any DeviationResult and an evaluator that may answer anything.

\* _mock_deviation of the analyzer tests: a DeviationResult built by hand.
MockDeviation(ply, side, fully_booked, played_move) ==
  [deviation_ply |-> ply,
   deviating_side |-> side,
   board_at_deviation |-> StartBoard,
   is_fully_booked |-> fully_booked,
   played_move |-> played_move,
   book_moves |-> <<>>]

\* The DeviationResults the detector hands to the loop body: results of the
\* locator itself and hand-built ones.
DeviationPool ==
  {FindDeviation(MainlineMoves(p))[1] : p \in {PgnBooked, PgnBlackDev, PgnWhiteDev}}
    \cup {MockDeviation(6, "black", FALSE, None),
          MockDeviation(6, "none", TRUE, "g1f3"),
          MockDeviation(2, "white", FALSE, "g1f3")}

\* The detector has returned a deviation; the body is about to evaluate.
LossStart ==
  /\ lg_deviation \in {<<d>> : d \in DeviationPool}
  /\ lg_color \in {"white", "black"}
  /\ lg_pc = "evaluate"
  /\ lg_calls = <<>>
  /\ lg_results = <<>>
  /\ lg_loss = <<>>

\* eval_result = evaluator.evaluate(deviation.board_at_deviation)
LossEvaluateBefore ==
  /\ lg_pc = "evaluate"
  /\ \E info \in EngineAnswers :
       lg_results' = Append(lg_results, EvalResultOf(info, DefaultDepth))
  /\ lg_calls' = Append(lg_calls, lg_deviation[1].board_at_deviation)
  /\ lg_pc' = "compute_eval_loss"
  /\ UNCHANGED <<main_vars, run_vars, fold_vars, dev_vars, sf_vars, cache_vars,
                 lg_deviation, lg_color, lg_loss>>

\* eval_cp = eval_result.score_for_color(game.my_color);
\* eval_loss_cp = self._compute_eval_loss(deviation, eval_cp, evaluator, color)
LossCompute ==
  /\ lg_pc = "compute_eval_loss"
  /\ LET deviation == lg_deviation[1]
         eval_cp == ScoreForColor(lg_results[1], lg_color)
     IN IF NeedsSecondEval(deviation)
        THEN \E info \in EngineAnswers :
               LET eval_after == EvalResultOf(info, DefaultDepth)
               IN /\ lg_calls' = Append(lg_calls, BoardAfter(deviation))
                  /\ lg_results' = Append(lg_results, eval_after)
                  /\ lg_loss' = <<ComputeEvalLoss(deviation, eval_cp,
                                                  eval_after, lg_color)>>
        ELSE /\ lg_loss' = <<ComputeEvalLoss(deviation, eval_cp,
                                             lg_results[1], lg_color)>>
             /\ UNCHANGED <<lg_calls, lg_results>>
  /\ lg_pc' = "done"
  /\ UNCHANGED <<main_vars, run_vars, fold_vars, dev_vars, sf_vars, cache_vars,
                 lg_deviation, lg_color>>

InitLoss ==
  MainIdle /\ RunIdle /\ LossStart /\ FoldIdle /\ DevIdle /\ SfIdle /\ CacheIdle

NextLoss == LossEvaluateBefore \/ LossCompute

SpecLoss == InitLoss /\ [][NextLoss]_vars

\* C11: once a game's loop body is done, a deviation that is fully booked or
\* has no played move has loss 0 after exactly one evaluation (of the
\* deviation position), whatever the engine answered; any other deviation
\* has had exactly two evaluations, the deviation position and then the
\* position after the played move, and its loss is the first score minus the
\* second, both seen from the analysed player's side.
C11_EvalLoss ==
  lg_pc = "done" =>
    LET deviation == lg_deviation[1]
        Pov(r) == IF lg_color = "white" THEN r.score_cp ELSE -r.score_cp
    IN IF deviation.is_fully_booked \/ deviation.played_move = None
       THEN /\ lg_loss = <<0>>
            /\ lg_calls = <<deviation.board_at_deviation>>
       ELSE /\ lg_calls = <<deviation.board_at_deviation,
                            Append(deviation.board_at_deviation,
                                   deviation.played_move)>>
            /\ Len(lg_results) = 2
            /\ lg_loss = <<Pov(lg_results[1]) - Pov(lg_results[2])>>

\* A game of Black whose played move improved the position: a negative loss
\* after two evaluations.
C11_Witness ==
  /\ lg_pc = "done"
  /\ lg_color = "black"
  /\ Len(lg_calls) = 2
  /\ lg_loss[1] < 0

\* ==================================================== folding in two orders
\* _aggregate applied to one finite collection of OpeningEvaluations in two
\* orders, each into a fresh stats map.
MaxFold == 3

\* OpeningEvaluation(...) with the coaching fields at their defaults.
OpeningEvaluation(eco_code, eco_name, my_color, ply, side, eval_cp) ==
  [eco_code |-> eco_code, eco_name |-> eco_name, my_color |-> my_color,
   deviation_ply |-> ply, deviating_side |-> side,
   eval_cp |-> eval_cp, is_fully_booked |-> side = "none",
   fen_at_deviation |-> <<>>, best_move_uci |-> None,
   played_move_uci |-> None, book_moves_uci |-> <<>>, eval_loss_cp |-> 0,
   game_moves_uci |-> <<>>]

\* The evaluations a collection is drawn from: one opening in both colours,
\* a missing and an empty opening code and the code "Unknown", scores of
\* both signs.
FoldPool ==
  {OpeningEvaluation("B90", "Sicilian Defense", "white", 6, "black", 40),
   OpeningEvaluation("B90", "Sicilian Najdorf", "white", 3, "white", -25),
   OpeningEvaluation("B90", "Sicilian Defense", "black", 4, "none", 0),
   OpeningEvaluation(None, "Unknown Opening", "black", 2, "black", 10),
   OpeningEvaluation("", "Irregular", "black", 5, "white", -70),
   OpeningEvaluation("Unknown", "Unclassified", "black", 1, "black", 5)}

\* The bijections of 1..n.
Perms(n) == {f \in [1..n -> 1..n] : \A i, j \in 1..n : i # j => f[i] # f[j]}

\* The orders a collection given as a list can be folded in.
Reorderings(evs) ==
  {[i \in 1..Len(evs) |-> evs[f[i]]] : f \in Perms(Len(evs))}

\* round(total / times_played, 1), in tenths; a tie goes to the even tenth,
\* as Python's round does on a quotient that is an exact binary fraction.
RoundTenths(total_, times_played) ==
  LET q == (10 * total_) \div times_played
      r == (10 * total_) - q * times_played
  IN IF 2 * r < times_played THEN q
     ELSE IF 2 * r > times_played THEN q + 1
     ELSE IF q % 2 = 0 THEN q ELSE q + 1

\* OpeningStats.avg_eval, in tenths of a centipawn.
AvgEval(entry) ==
  IF entry.times_played = 0 THEN 0
  ELSE RoundTenths(entry.total_eval, entry.times_played)

\* OpeningStats.avg_deviation_ply, in tenths of a ply.
AvgDeviationPly(entry) ==
  IF entry.times_played = 0 THEN 0
  ELSE RoundTenths(entry.total_deviation_ply, entry.times_played)

\* Two fresh stats maps and one collection in two orders.
FoldStart ==
  /\ fold_a \in SeqsUpTo(FoldPool, MaxFold)
  /\ fold_b \in Reorderings(fold_a)
  /\ fold_ia = 0
  /\ fold_ib = 0
  /\ fold_sa = <<>>
  /\ fold_sb = <<>>

\* self._aggregate(stats, evaluation) on the next evaluation of the first order.
FoldA ==
  /\ fold_ia < Len(fold_a)
  /\ fold_sa' = Aggregate(fold_sa, fold_a[fold_ia + 1])
  /\ fold_ia' = fold_ia + 1
  /\ UNCHANGED <<main_vars, run_vars, loss_vars, dev_vars, sf_vars, cache_vars,
                 fold_a, fold_b, fold_ib, fold_sb>>

\* self._aggregate(stats, evaluation) on the next evaluation of the second order.
FoldB ==
  /\ fold_ib < Len(fold_b)
  /\ fold_sb' = Aggregate(fold_sb, fold_b[fold_ib + 1])
  /\ fold_ib' = fold_ib + 1
  /\ UNCHANGED <<main_vars, run_vars, loss_vars, dev_vars, sf_vars, cache_vars,
                 fold_a, fold_b, fold_ia, fold_sa>>

InitFold ==
  MainIdle /\ RunIdle /\ LossIdle /\ FoldStart /\ DevIdle /\ SfIdle /\ CacheIdle

NextFold == FoldA \/ FoldB

SpecFold == InitFold /\ [][NextFold]_vars

\* Both orders are folded completely.
FoldComplete == fold_ia = Len(fold_a) /\ fold_ib = Len(fold_b)

\* C12: folding one collection of evaluations into a fresh stats map in any
\* two orders gives the same key set and, under every key, the same
\* times_played, total_eval, min_eval, max_eval, total_deviation_ply,
\* player_deviated_count, avg_eval and avg_deviation_ply.
C12_FoldOrderIrrelevant ==
  FoldComplete =>
    /\ DOMAIN fold_sa = DOMAIN fold_sb
    /\ \A k \in DOMAIN fold_sa :
         /\ fold_sa[k].times_played = fold_sb[k].times_played
         /\ fold_sa[k].total_eval = fold_sb[k].total_eval
         /\ fold_sa[k].min_eval = fold_sb[k].min_eval
         /\ fold_sa[k].max_eval = fold_sb[k].max_eval
         /\ fold_sa[k].total_deviation_ply = fold_sb[k].total_deviation_ply
         /\ fold_sa[k].player_deviated_count = fold_sb[k].player_deviated_count
         /\ AvgEval(fold_sa[k]) = AvgEval(fold_sb[k])
         /\ AvgDeviationPly(fold_sa[k]) = AvgDeviationPly(fold_sb[k])

\* Three evaluations folded in two different orders, two of them under one
\* key with different scores and a third under another key, the first
\* evaluation of the shared key differing between the orders.
C12_Witness ==
  /\ FoldComplete
  /\ Len(fold_a) = MaxFold
  /\ fold_a # fold_b
  /\ Cardinality(DOMAIN fold_sa) = 2
  /\ \E k \in DOMAIN fold_sa :
       /\ fold_sa[k].times_played = 2
       /\ fold_sa[k].min_eval < fold_sa[k].max_eval
       /\ fold_sa[k].evaluations # fold_sb[k].evaluations

\* ================================================ the locator, called alone
\* find_deviation called on one OpeningDetector with arbitrary move lists;
\* of the calls made, the latest and one earlier call are on record.
MaxPly == 3

MaxCalls == 3

\* The moves the lists are made of: the book's first move and its replies.
DevMoves == {"e2e4", "c7c5", "e7e5"}

\* The move lists find_deviation is called with (the empty one included).
MoveLists == SeqsUpTo(DevMoves, MaxPly)

\* An OpeningDetector has been constructed; nothing was called yet.
DevStart ==
  /\ detector = NewDetector("book.bin")
  /\ dev_n = 0
  /\ dev_last = <<>>
  /\ dev_kept = <<>>

\* result = detector.find_deviation(moves): the book is opened from
\* self.book_path for the call; no attribute is assigned.  The caller may
\* keep the call made before this one to compare later calls with it.
FindDeviationCall ==
  /\ dev_n < MaxCalls
  /\ \E moves \in MoveLists :
       dev_last' = <<[n |-> dev_n + 1, moves |-> moves,
                      result |-> FindDeviation(moves)]>>
  /\ \E keep \in BOOLEAN : dev_kept' = IF keep THEN dev_last ELSE dev_kept
  /\ dev_n' = dev_n + 1
  /\ detector' = detector
  /\ UNCHANGED <<main_vars, run_vars, loss_vars, fold_vars, sf_vars, cache_vars>>

InitDev ==
  MainIdle /\ RunIdle /\ LossIdle /\ FoldIdle /\ DevStart /\ SfIdle /\ CacheIdle

NextDev == FindDeviationCall

SpecDev == InitDev /\ [][NextDev]_vars

\* The calls on record: the latest and the one kept.
DevCalls == Range(dev_last) \cup Range(dev_kept)

\* The position after the first j moves of a list.
PositionAfter(moves, j) == SubSeq(moves, 1, j)

\* Whether the book endorses the move at 0-based ply j of a list at the
\* position the moves before it lead to.
Endorsed(moves, j) == moves[j + 1] \in Range(BookMoves(PositionAfter(moves, j)))

\* C13: a call with an empty list returns no result; a call with a non-empty
\* list returns a result that, if fully booked, has deviation_ply = number
\* of moves, side "none", no played move and no book moves, and otherwise
\* has deviation_ply below the number of moves and played_move present and
\* equal to moves[deviation_ply].
C13_ResultShape ==
  \A c \in DevCalls :
    IF c.moves = <<>> THEN c.result = <<>>
    ELSE /\ c.result # <<>>
         /\ LET r == c.result[1]
            IN IF r.is_fully_booked
               THEN /\ r.deviation_ply = Len(c.moves)
                    /\ r.deviating_side = "none"
                    /\ r.played_move = None
                    /\ r.book_moves = <<>>
               ELSE /\ r.deviation_ply \in 0..(Len(c.moves) - 1)
                    /\ r.played_move # None
                    /\ r.played_move = c.moves[r.deviation_ply + 1]

\* A call with a fully booked list and a call with a list that deviates
\* after its first move have been made.
C13_Witness ==
  /\ \E c \in DevCalls :
       /\ c.result # <<>>
       /\ c.result[1].is_fully_booked
       /\ c.result[1].deviation_ply = 2
  /\ \E c \in DevCalls :
       /\ c.result # <<>>
       /\ ~c.result[1].is_fully_booked
       /\ c.result[1].deviation_ply >= 1

\* C14: the result names the first deviating ply k: every move before k is
\* endorsed at the position the earlier moves lead to and, unless the game
\* is fully booked, move k is not; a game is fully booked exactly when every
\* move is endorsed; a move met where the book endorses nothing is the
\* deviation.
C14_FirstDeviation ==
  \A c \in DevCalls :
    c.moves # <<>> =>
      LET r == c.result[1]
          k == r.deviation_ply
      IN /\ \A j \in 0..(k - 1) : Endorsed(c.moves, j)
         /\ ~r.is_fully_booked => ~Endorsed(c.moves, k)
         /\ r.is_fully_booked <=>
              \A j \in 0..(Len(c.moves) - 1) : Endorsed(c.moves, j)
         /\ \A j \in 0..(Len(c.moves) - 1) :
              BookMoves(PositionAfter(c.moves, j)) = <<>> => k <= j

\* A call whose list follows the book for two moves and then meets a
\* position where the book endorses nothing.
C14_Witness ==
  \E c \in DevCalls :
    /\ c.result # <<>>
    /\ ~c.result[1].is_fully_booked
    /\ c.result[1].deviation_ply = 2
    /\ c.result[1].book_moves = <<>>

\* C15: at a deviation at ply k the returned position is the one reached by
\* moves 0..k-1 and book_moves is what the book endorses there; a first move
\* the book does not endorse gives deviation_ply 0 and the starting
\* position.
C15_PositionBeforeDeviation ==
  \A c \in DevCalls :
    (c.moves # <<>> /\ ~c.result[1].is_fully_booked) =>
      LET r == c.result[1]
          k == r.deviation_ply
      IN /\ r.board_at_deviation = PositionAfter(c.moves, k)
         /\ r.book_moves = BookMoves(PositionAfter(c.moves, k))
         /\ ~Endorsed(c.moves, 0) =>
              (k = 0 /\ r.board_at_deviation = StartBoard)

\* A deviation at ply 2 from a position where the book endorses a move, and
\* a deviation on the first move.
C15_Witness ==
  /\ \E c \in DevCalls :
       /\ c.result # <<>>
       /\ ~c.result[1].is_fully_booked
       /\ c.result[1].deviation_ply = 2
       /\ c.result[1].book_moves # <<>>
  /\ \E c \in DevCalls :
       /\ c.result # <<>>
       /\ ~c.result[1].is_fully_booked
       /\ c.result[1].deviation_ply = 0

MaxStarts == 2

MaxEvals == 2

MaxQuitTries == 2

\* The positions the client evaluates.
SfBoards == {StartBoard, <<"e2e4">>}

\* evaluate without the test of self._engine.
EngineMissingNever(evaluator) == FALSE

\* if self._engine is None (evaluate)
EngineMissing(evaluator) == ~evaluator.engine

\* What the client can observe of the evaluator and its engine processes.
SfSnapshot == [sf |-> sf, proc |-> sf_proc, quits |-> sf_quits, sent |-> sf_sent]

\* The outcome of an operation: what it was, the state it started from, the
\* exception that ended the with body (with_exit only), the exception the
\* operation raised (None if it returned), and for evaluate the engine's
\* analysis and the EvalResult returned.
Outcome(op, body_exc, exc, info, value) ==
  [op |-> op, before |-> SfSnapshot, body_exc |-> body_exc, exc |-> exc,
   info |-> info, value |-> value]

\* evaluator = StockfishEvaluator(stockfish_path, depth=depth)
SfStart ==
  /\ sf \in {NewEvaluator("stockfish", d) : d \in {DefaultDepth, 12}}
  /\ sf_proc = <<>>
  /\ sf_quits = <<>>
  /\ sf_sent = <<>>
  /\ sf_pc = "outside"
  /\ sf_out = Outcome("init", None, None, <<>>, <<>>)

\* `with evaluator:` reaching __enter__: popen_uci starts a process and the
\* body is entered, or popen_uci raises and the statement is left.
SfEnter ==
  /\ sf_pc = "outside"
  /\ Len(sf_proc) < MaxStarts
  /\ \E started \in BOOLEAN :
       IF started
       THEN /\ sf' = [sf EXCEPT !.engine = TRUE]
            /\ sf_proc' = Append(sf_proc, "running")
            /\ sf_quits' = Append(sf_quits, 0)
            /\ sf_pc' = "body"
            /\ sf_out' = Outcome("enter", None, None, <<>>, <<>>)
       ELSE /\ sf_out' = Outcome("enter", None, "StartError", <<>>, <<>>)
            /\ UNCHANGED <<sf, sf_proc, sf_quits, sf_pc>>
  /\ UNCHANGED <<main_vars, run_vars, loss_vars, fold_vars, dev_vars, cache_vars, sf_sent>>

\* evaluator.evaluate(board), inside or outside a with block: RuntimeError
\* without an engine; otherwise analyse is sent to the engine, which
\* answers with an analysis or raises.
SfEvaluate(board) ==
  /\ Len(sf_sent) < MaxEvals
  /\ IF EngineMissing(sf)
     THEN /\ sf_out' = Outcome("evaluate", None, "RuntimeError", <<>>, <<>>)
          /\ sf_sent' = sf_sent
     ELSE /\ sf_sent' = Append(sf_sent, [proc |-> Len(sf_proc), board |-> board])
          /\ \/ sf_out' = Outcome("evaluate", None, "EngineError", <<>>, <<>>)
             \/ \E info \in EngineAnswers :
                  sf_out' = Outcome("evaluate", None, None, <<info>>,
                                    <<EvalResultOf(info, sf.depth)>>)
  /\ UNCHANGED <<main_vars, run_vars, loss_vars, fold_vars, dev_vars, cache_vars,
                 sf, sf_proc, sf_quits, sf_pc>>

\* Whether quit() can return (TRUE) or raise (FALSE) on a process that has
\* received `tries` quit calls: the last of MaxQuitTries tries succeeds.
QuitOutcomes(tries) == IF tries + 1 < MaxQuitTries THEN BOOLEAN ELSE {TRUE}

\* __exit__(exc_type, exc_val, exc_tb) when op ends with body_exc in flight
\* (None: no exception).  quit() may raise: the handle is then kept and the
\* quit failure is what the caller receives.  Returning False lets body_exc
\* propagate.
SfExitCall(op, body_exc) ==
  IF ~sf.engine
  THEN /\ sf_out' = Outcome(op, body_exc, body_exc, <<>>, <<>>)
       /\ UNCHANGED <<sf, sf_proc, sf_quits>>
  ELSE /\ sf_quits' = [sf_quits EXCEPT ![Len(sf_quits)] = @ + 1]
       /\ \E quit_ok \in QuitOutcomes(sf_quits[Len(sf_quits)]) :
            IF quit_ok
            THEN /\ sf_proc' = [sf_proc EXCEPT ![Len(sf_proc)] = "quit"]
                 /\ sf' = [sf EXCEPT !.engine = FALSE]
                 /\ sf_out' = Outcome(op, body_exc, body_exc, <<>>, <<>>)
            ELSE /\ sf_proc' = [sf_proc EXCEPT ![Len(sf_proc)] = "quit_failed"]
                 /\ sf' = sf
                 /\ sf_out' = Outcome(op, body_exc, "StopError", <<>>, <<>>)

\* Leaving the with block, the body having completed or raised.
SfExit ==
  /\ sf_pc = "body"
  /\ \E body_exc \in {None, "ValueError"} : SfExitCall("with_exit", body_exc)
  /\ sf_pc' = "outside"
  /\ UNCHANGED <<main_vars, run_vars, loss_vars, fold_vars, dev_vars, cache_vars, sf_sent>>

\* evaluator.__exit__(None, None, None) called directly, outside a block.
SfStop ==
  /\ sf_pc = "outside"
  /\ SfExitCall("stop", None)
  /\ UNCHANGED <<main_vars, run_vars, loss_vars, fold_vars, dev_vars, cache_vars,
                 sf_sent, sf_pc>>

InitSf ==
  MainIdle /\ RunIdle /\ LossIdle /\ FoldIdle /\ DevIdle /\ SfStart /\ CacheIdle

NextSf ==
  \/ SfEnter
  \/ \E board \in SfBoards : SfEvaluate(board)
  \/ SfExit
  \/ SfStop

SpecSf == InitSf /\ [][NextSf]_vars

\* The state of an engine process the handle of a snapshot refers to last.
LastProc(snap) == IF snap.proc = <<>> THEN "none" ELSE snap.proc[Len(snap.proc)]

\* Not started: never started, or the process started last has been quit.
NotStarted(snap) == LastProc(snap) \in {"none", "quit"}

C18_ScopeExitStops ==
  /\ sf_out.op = "with_exit" =>
       /\ sf_quits[Len(sf_quits)] = 1
       /\ LastProc(SfSnapshot) = "quit"
       /\ ~sf.engine
       /\ sf_out.exc = sf_out.body_exc
  /\ (sf_out.op \in {"with_exit", "stop"} /\ ~sf_out.before.sf.engine) =>
       /\ SfSnapshot = sf_out.before
       /\ sf_out.exc = sf_out.body_exc

\* Whether a mate score is in White's favour: White mates in `mate` moves,
\* or the mate is on the board and White delivered it.
WhiteMates(info) == info.mate > 0 \/ (info.mate = 0 /\ info.mate_given)

\* C19: an evaluate call that returned has built, from the engine's
\* White-relative score, score_cp = +10000 for a mate in White's favour and
\* -10000 for one in Black's favour, with score_mate the signed move count
\* (0 for a mate already on the board), and for a centipawn score score_cp =
\* the raw value with score_mate absent.
C19_WhitePerspectiveScore ==
  (sf_out.op = "evaluate" /\ sf_out.value # <<>>) =>
    LET info == sf_out.info[1]
        value == sf_out.value[1]
    IN IF info.is_mate
       THEN /\ value.score_mate = <<info.mate>>
            /\ value.score_cp =
                 IF WhiteMates(info) THEN MATE_SCORE_CP ELSE -MATE_SCORE_CP
       ELSE /\ value.score_mate = <<>>
            /\ value.score_cp = info.cp

\* ======================================================= the evaluation cache
\* GameCache over the opening_evaluations table: the table is the set of
\* its rows, a row a record of its sixteen columns.
MaxSaved == 3

MaxBatch == 2

MaxLookup == 2

CacheUrls == {"https://game/1", "https://game/2"}

\* The search depths evaluations are cached under.
CacheDepths == {DefaultDepth, 22}

\* The evaluations saved: one with the coaching fields at their defaults
\* and one with a missing opening code and the coaching fields filled.
CachePool ==
  {OpeningEvaluation("B90", "Sicilian Defense", "white", 6, "black", 30),
   [OpeningEvaluation(None, "Unknown Opening", "black", 1, "black", -15)
      EXCEPT !.fen_at_deviation = <<"e2e4">>,
             !.best_move_uci = "c7c5",
             !.played_move_uci = "d7d5",
             !.book_moves_uci = <<"c7c5", "e7e5">>,
             !.eval_loss_cp = 35,
             !.game_moves_uci = <<"e2e4", "d7d5", "e4d5", "d8d5">>]}

\* username.lower()
Lower(username) == IF username = "Bob" THEN "bob" ELSE username

RECURSIVE JoinComma(_)
\* ",".join(items)
JoinComma(items) ==
  IF items = <<>> THEN ""
  ELSE IF Len(items) = 1 THEN items[1]
  ELSE items[1] \o "," \o JoinComma(Tail(items))

\* The move lists whose joined text the cache may hold.
StoredLists ==
  UNION {{ev.book_moves_uci, ev.game_moves_uci} : ev \in CachePool}

\* text.split(","), on the texts the cache may hold.
SplitComma(text) ==
  IF \E items \in StoredLists : items # <<>> /\ JoinComma(items) = text
  THEN CHOOSE items \in StoredLists : items # <<>> /\ JoinComma(items) = text
  ELSE <<text>>

\* GameCache._eval_to_row
EvalToRow(game_url, username, depth, evaluation) ==
  [game_url |-> game_url,
   username |-> Lower(username),
   depth |-> depth,
   eco_code |-> evaluation.eco_code,
   eco_name |-> evaluation.eco_name,
   my_color |-> evaluation.my_color,
   deviation_ply |-> evaluation.deviation_ply,
   deviating_side |-> evaluation.deviating_side,
   eval_cp |-> evaluation.eval_cp,
   is_fully_booked |-> IF evaluation.is_fully_booked THEN 1 ELSE 0,
   fen_at_deviation |-> evaluation.fen_at_deviation,
   best_move_uci |-> evaluation.best_move_uci,
   played_move_uci |-> evaluation.played_move_uci,
   book_moves_uci |-> IF evaluation.book_moves_uci # <<>>
                      THEN JoinComma(evaluation.book_moves_uci) ELSE "",
   eval_loss_cp |-> evaluation.eval_loss_cp,
   game_moves_uci |-> IF evaluation.game_moves_uci # <<>>
                      THEN JoinComma(evaluation.game_moves_uci) ELSE ""]

\* INSERT OR REPLACE with the primary key taken to be game_url alone.
InsertOrReplaceByUrl(rows, row) ==
  {r \in rows : r.game_url # row.game_url} \cup {row}

\* INSERT OR REPLACE INTO opening_evaluations, PRIMARY KEY (game_url, depth):
\* a row with the key of the new row is deleted, the new row inserted.
InsertOrReplace(rows, row) ==
  {r \in rows : ~(r.game_url = row.game_url /\ r.depth = row.depth)}
    \cup {row}

RECURSIVE ExecuteMany(_, _)
\* self._conn.executemany(self._INSERT_EVAL_SQL, rows): row after row.
ExecuteMany(rows, new_rows) ==
  IF new_rows = <<>> THEN rows
  ELSE ExecuteMany(InsertOrReplace(rows, Head(new_rows)), Tail(new_rows))

\* The fields of the OpeningEvaluation dataclass.
OpeningEvaluationFields ==
  DOMAIN OpeningEvaluation(None, None, None, 0, None, 0)

\* The keyword arguments _row_to_evaluation passes to OpeningEvaluation.
RowToEvaluationKwargs(row) ==
  [eco_code |-> row.eco_code,
   eco_name |-> row.eco_name,
   my_color |-> row.my_color,
   deviation_ply |-> row.deviation_ply,
   deviating_side |-> row.deviating_side,
   eval_cp |-> row.eval_cp,
   is_fully_booked |-> row.is_fully_booked # 0,
   fen_at_deviation |-> row.fen_at_deviation,
   best_move_uci |-> row.best_move_uci,
   played_move_uci |-> row.played_move_uci,
   book_moves_uci |-> IF row.book_moves_uci # ""
                      THEN SplitComma(row.book_moves_uci) ELSE <<>>,
   eval_loss_cp |-> row.eval_loss_cp,
   game_moves_uci |-> IF row.game_moves_uci # ""
                      THEN SplitComma(row.game_moves_uci) ELSE <<>>,
   game_url |-> row.game_url]

\* GameCache._row_to_evaluation: the dataclass constructor raises TypeError
\* on a keyword that is not one of its fields; otherwise the evaluation.
RowToEvaluation(row) ==
  LET kwargs == RowToEvaluationKwargs(row)
  IN IF DOMAIN kwargs \subseteq OpeningEvaluationFields
     THEN [exc |-> None, value |-> <<kwargs>>]
     ELSE [exc |-> "TypeError", value |-> <<>>]

\* The outcome of a save: both save methods return None.
SaveOutcome(op, depth) ==
  [op |-> op, urls |-> {}, depth |-> depth, exc |-> None, value |-> {}]

\* The rows a SELECT ... WHERE game_url IN (urls) AND depth = ? yields.
SelectRows(urls, depth) ==
  {r \in cache_rows : r.game_url \in urls /\ r.depth = depth}

\* The outcome of a lookup over urls at depth: the hits converted, as a set
\* of (game_url, evaluation) entries, or the exception of the first
\* conversion that raised.
LookupOutcome(op, urls, depth) ==
  LET rows == SelectRows(urls, depth)
      raised == {r \in rows : RowToEvaluation(r).exc # None}
  IN [op |-> op, urls |-> urls, depth |-> depth,
      exc |-> IF raised = {} THEN None
              ELSE RowToEvaluation(CHOOSE r \in raised : TRUE).exc,
      value |-> IF raised # {} THEN {}
                ELSE {[game_url |-> r.game_url,
                       evaluation |-> RowToEvaluation(r).value[1]] : r \in rows}]

\* cache = GameCache(db_path) on a new database file.
CacheStart ==
  /\ cache_rows = {}
  /\ cache_log = <<>>
  /\ cache_out = <<>>

\* cache.save_evaluation(game_url, username, depth, evaluation)
SaveEvaluation ==
  /\ Len(cache_log) < MaxSaved
  /\ \E game_url \in CacheUrls, depth \in CacheDepths, evaluation \in CachePool :
       /\ cache_rows' = InsertOrReplace(cache_rows,
                           EvalToRow(game_url, "Bob", depth, evaluation))
       /\ cache_log' = Append(cache_log, [game_url |-> game_url, depth |-> depth,
                                          evaluation |-> evaluation])
       /\ cache_out' = <<SaveOutcome("save_evaluation", depth)>>
  /\ UNCHANGED <<main_vars, run_vars, loss_vars, fold_vars, dev_vars, sf_vars>>

\* cache.save_evaluations_batch(username, depth, evals)
SaveEvaluationsBatch ==
  \E depth \in CacheDepths,
     evals \in SeqsUpTo(CacheUrls \X CachePool, MaxBatch) :
    /\ Len(cache_log) + Len(evals) <= MaxSaved
    /\ cache_rows' =
         ExecuteMany(cache_rows,
                     [i \in 1..Len(evals) |->
                        EvalToRow(evals[i][1], "Bob", depth, evals[i][2])])
    /\ cache_log' = cache_log \o
                      [i \in 1..Len(evals) |->
                         [game_url |-> evals[i][1], depth |-> depth,
                          evaluation |-> evals[i][2]]]
    /\ cache_out' = <<SaveOutcome("save_evaluations_batch", depth)>>
    /\ UNCHANGED <<main_vars, run_vars, loss_vars, fold_vars, dev_vars, sf_vars>>

\* cache.get_evaluation(game_url, depth): None is the empty set of hits.
GetEvaluation ==
  /\ \E game_url \in CacheUrls, depth \in CacheDepths :
       cache_out' = <<LookupOutcome("get_evaluation", {game_url}, depth)>>
  /\ UNCHANGED <<main_vars, run_vars, loss_vars, fold_vars, dev_vars, sf_vars,
                 cache_rows, cache_log>>

\* cache.get_cached_evaluations(game_urls, depth)
GetCachedEvaluations ==
  /\ \E game_urls \in SeqsUpTo(CacheUrls, MaxLookup), depth \in CacheDepths :
       cache_out' = <<LookupOutcome("get_cached_evaluations",
                                   Range(game_urls), depth)>>
  /\ UNCHANGED <<main_vars, run_vars, loss_vars, fold_vars, dev_vars, sf_vars,
                 cache_rows, cache_log>>

InitCache ==
  MainIdle /\ RunIdle /\ LossIdle /\ FoldIdle /\ DevIdle /\ SfIdle /\ CacheStart

NextCache ==
  \/ SaveEvaluation
  \/ SaveEvaluationsBatch
  \/ GetEvaluation
  \/ GetCachedEvaluations

SpecCache == InitCache /\ [][NextCache]_vars

\* The positions in the log of the saves made for a (url, depth) pair.
SavesOf(game_url, depth) ==
  {i \in 1..Len(cache_log) :
     cache_log[i].game_url = game_url /\ cache_log[i].depth = depth}

\* The largest member of a non-empty set of integers.
Latest(S) == CHOOSE i \in S : \A j \in S : j <= i

\* The saves for game_url at the depth of the last operation, a lookup.
SavedBeforeLookup(game_url) == SavesOf(game_url, cache_out[1].depth)

C21_SaveThenGetRoundTrip ==
  cache_out # <<>> =>
    \A game_url \in cache_out[1].urls :
      SavedBeforeLookup(game_url) # {} =>
        /\ cache_out[1].exc = None
        /\ \E hit \in cache_out[1].value :
             /\ hit.game_url = game_url
             /\ DOMAIN hit.evaluation = OpeningEvaluationFields
             /\ \A f \in OpeningEvaluationFields :
                  hit.evaluation[f] =
                    cache_log[Latest(SavedBeforeLookup(game_url))].evaluation[f]

\* ================================================================ run_analysis
\* run_analysis (analyze.py) from the cache lookup to the save of the new
\* evaluations, around analyze_repertoire as modelled above.  The cache
\* argument is absent, a GameCache over a table earlier runs have filled, or
\* a MagicMock whose get_cached_evaluations returns a preset map.
MaxRunGames == 2

RunWorkers == {1, 2}

\* The games a run is given: two analysable games with a url and one
\* without a url.
RunCatalogue ==
  {g \in Catalogue : g.game_url \in {"https://game/5", "https://game/6", ""}}

\* The evaluations earlier runs cached for the two games.
RunCached(game_url) ==
  IF game_url = "https://game/5"
  THEN OpeningEvaluation("B90", "Sicilian Defense", "white", 3, "none", 25)
  ELSE OpeningEvaluation(None, "Unknown Opening", "black", 1, "black", -40)

\* A save made by an earlier run.
EarlierSave(game_url, depth) ==
  [game_url |-> game_url, depth |-> depth, evaluation |-> RunCached(game_url)]

\* The saves earlier runs have made into the GameCache.
RunLogs ==
  {<<>>,
   <<EarlierSave("https://game/5", DefaultDepth)>>,
   <<EarlierSave("https://game/5", 22)>>,
   <<EarlierSave("https://game/5", DefaultDepth),
     EarlierSave("https://game/6", DefaultDepth)>>}

\* The maps a MagicMock cache returns from get_cached_evaluations.
RunMockMaps ==
  {{},
   {[game_url |-> "https://game/5", evaluation |-> RunCached("https://game/5")]},
   {[game_url |-> u, evaluation |-> RunCached(u)] :
      u \in {"https://game/5", "https://game/6"}}}

\* The rows a list of saves leaves in the table.
RowsOf(log) ==
  ExecuteMany({}, [i \in 1..Len(log) |->
                     EvalToRow(log[i].game_url, "Bob", log[i].depth,
                               log[i].evaluation)])

\* run_analysis is called; analyze_repertoire is not, and the evaluator of
\* line 140 does not exist yet.
RunStart ==
  /\ run_games \in SeqsUpTo(RunCatalogue, MaxRunGames)
  /\ run_workers \in RunWorkers
  /\ run_cache \in {"none", "GameCache", "MagicMock"}
  /\ run_mock \in IF run_cache = "MagicMock" THEN RunMockMaps ELSE {{}}
  /\ force_refresh \in BOOLEAN
  /\ run_pc = "lookup"
  /\ cached_evals = <<>>
  /\ uncached_games = <<>>
  /\ opening_stats = <<>>
  /\ run_saved = <<>>
  /\ run_result = [kind |-> "none", exc |-> None]
  /\ cache_log \in IF run_cache = "GameCache" THEN RunLogs ELSE {<<>>}
  /\ cache_rows = RowsOf(cache_log)
  /\ cache_out = <<>>
  /\ games = <<>>
  /\ workers = 0
  /\ progress_callback = FALSE
  /\ cached_evaluations = <<>>
  /\ engine_table = 1
  /\ pc = "idle"
  /\ stats = <<>>
  /\ prepared = <<>>
  /\ total = 0
  /\ new_evals = <<>>
  /\ completed = 0
  /\ lock = 0
  /\ chunks = [w \in Workers |-> <<>>]
  /\ engines = <<>>
  /\ evaluators = [e \in EvaluatorIds |-> NotCreated]
  /\ proc = [e \in EvaluatorIds |-> "none"]
  /\ wpc = [w \in Workers |-> "idle"]
  /\ wi = [w \in Workers |-> 1]
  /\ wev = [w \in Workers |-> NoEvaluation]
  /\ wexc = [w \in Workers |-> None]
  /\ futures = {}
  /\ awaited = {}
  /\ fin_i = 1
  /\ seq_i = 0
  /\ seq_ev = NoEvaluation
  /\ cb_calls = <<>>
  /\ engine_calls = [e \in EvaluatorIds |-> <<>>]
  /\ pending_exc = None
  /\ result = [kind |-> "none", exc |-> None]

\* game_urls = [g.game_url for g in games if g.game_url]
GameUrls(gs) ==
  LET WithUrl(g) == g.game_url # ""
      kept == SelectSeq(gs, WithUrl)
  IN [i \in 1..Len(kept) |-> kept[i].game_url]

\* cache.get_cached_evaluations(game_urls, depth) on the cache given.
CachedMapOutcome ==
  IF run_cache = "MagicMock"
  THEN [op |-> "get_cached_evaluations", urls |-> Range(GameUrls(run_games)),
        depth |-> DefaultDepth, exc |-> None, value |-> run_mock]
  ELSE LookupOutcome("get_cached_evaluations", Range(GameUrls(run_games)),
                     DefaultDepth)

\* The orders in which the entries of a map can be listed.
Listings(entries) ==
  {q \in [1..Cardinality(entries) -> entries] : Range(q) = entries}

\* [g for g in games if g.game_url not in cached_urls]
Uncached(gs, cached_urls) ==
  LET NotCached(g) == g.game_url \notin cached_urls
  IN SelectSeq(gs, NotCached)

\* Lines 119-130: the cache lookup and the split of the games.
RunLookup ==
  /\ run_pc = "lookup"
  /\ IF run_cache = "none" \/ force_refresh
     THEN /\ cached_evals' = <<>>
          /\ uncached_games' = run_games
          /\ run_pc' = "branch"
          /\ UNCHANGED <<cache_out, run_result>>
     ELSE LET out == CachedMapOutcome
          IN /\ cache_out' = IF run_cache = "GameCache" THEN <<out>> ELSE cache_out
             /\ IF out.exc # None
                THEN /\ run_result' = Raised(out.exc)
                     /\ run_pc' = "done"
                     /\ UNCHANGED <<cached_evals, uncached_games>>
                ELSE /\ \E q \in Listings(out.value) :
                          cached_evals' =
                            [i \in 1..Len(q) |-> q[i].evaluation]
                     /\ uncached_games' =
                          Uncached(run_games, {e.game_url : e \in out.value})
                     /\ run_pc' = "branch"
                     /\ run_result' = run_result
  /\ UNCHANGED <<main_vars, loss_vars, fold_vars, dev_vars, sf_vars,
                 cache_rows, cache_log, run_games, run_workers, run_cache,
                 run_mock, force_refresh, opening_stats, run_saved>>

\* Lines 132-138: everything is cached, the cached evaluations are folded.
RunAllCached ==
  /\ run_pc = "branch"
  /\ uncached_games = <<>> /\ cached_evals # <<>>
  /\ opening_stats' = AggregateAll(<<>>, cached_evals, 1)
  /\ run_pc' = "save"
  /\ UNCHANGED <<main_vars, loss_vars, fold_vars, dev_vars, sf_vars, cache_vars,
                 run_games, run_workers, run_cache, run_mock, force_refresh,
                 cached_evals, uncached_games, run_saved, run_result>>

\* Lines 140-149: the evaluator is constructed and entered (popen_uci may
\* raise), RepertoireAnalyzer is constructed and analyze_repertoire called
\* with the uncached games and the cached evaluations.
RunEnter ==
  /\ run_pc = "branch"
  /\ ~(uncached_games = <<>> /\ cached_evals # <<>>)
  /\ \E started \in BOOLEAN :
       IF started
       THEN /\ evaluators' =
                 [evaluators EXCEPT
                    ![0] = [NewEvaluator("stockfish", DefaultDepth)
                              EXCEPT !.engine = TRUE]]
            /\ proc' = [proc EXCEPT ![0] = "running"]
            /\ games' = uncached_games
            /\ workers' = run_workers
            /\ progress_callback' = TRUE
            /\ cached_evaluations' = cached_evals
            /\ pc' = "call"
            /\ run_pc' = "engine"
            /\ run_result' = run_result
       ELSE /\ evaluators' =
                 [evaluators EXCEPT ![0] = NewEvaluator("stockfish", DefaultDepth)]
            /\ run_result' = Raised("StartError")
            /\ run_pc' = "done"
            /\ UNCHANGED <<proc, games, workers, progress_callback,
                           cached_evaluations, pc>>
  /\ UNCHANGED <<engine_table, stats, prepared, total, new_evals, completed,
                 lock, chunks, engines, wpc, wi, wev, wexc, futures, awaited,
                 fin_i, seq_i, seq_ev, cb_calls, engine_calls, pending_exc,
                 result, loss_vars, fold_vars, dev_vars, sf_vars, cache_vars,
                 run_games, run_workers, run_cache, run_mock, force_refresh,
                 cached_evals, uncached_games, opening_stats, run_saved>>

\* The end of the with block of line 140: __exit__ quits the engine (quit
\* may raise); an exception of analyze_repertoire propagates.
RunExit ==
  /\ run_pc = "engine"
  /\ pc = "done"
  /\ IF ~evaluators[0].engine
     THEN /\ UNCHANGED <<evaluators, proc>>
          /\ run_result' = IF result.kind = "raised" THEN result ELSE run_result
          /\ run_pc' = IF result.kind = "raised" THEN "done" ELSE "save"
          /\ opening_stats' = IF result.kind = "raised" THEN opening_stats ELSE stats
     ELSE \E quit_ok \in BOOLEAN :
            IF quit_ok
            THEN /\ evaluators' = [evaluators EXCEPT ![0].engine = FALSE]
                 /\ proc' = [proc EXCEPT ![0] = "quit"]
                 /\ run_result' =
                      IF result.kind = "raised" THEN result ELSE run_result
                 /\ run_pc' = IF result.kind = "raised" THEN "done" ELSE "save"
                 /\ opening_stats' =
                      IF result.kind = "raised" THEN opening_stats ELSE stats
            ELSE /\ proc' = [proc EXCEPT ![0] = "quit_failed"]
                 /\ run_result' = Raised("StopError")
                 /\ run_pc' = "done"
                 /\ UNCHANGED <<evaluators, opening_stats>>
  /\ UNCHANGED <<args, stats, prepared, total, new_evals, completed,
                 lock, chunks, engines, wpc, wi, wev, wexc, futures, awaited,
                 fin_i, seq_i, seq_ev, cb_calls, engine_calls, pending_exc,
                 result, pc, loss_vars, fold_vars, dev_vars, sf_vars, cache_vars,
                 run_games, run_workers, run_cache, run_mock, force_refresh,
                 cached_evals, uncached_games, run_saved>>

\* batch = [(game.game_url, ev) for game, ev in new_evals if game.game_url]
SaveBatch ==
  LET WithUrl(entry) == games[entry.game].game_url # ""
      kept == SelectSeq(new_evals, WithUrl)
  IN [i \in 1..Len(kept) |->
        <<games[kept[i].game].game_url, kept[i].evaluation>>]

\* Lines 152-189: the new evaluations are saved and run_analysis returns.
RunSave ==
  /\ run_pc = "save"
  /\ IF run_cache # "none" /\ new_evals # <<>> /\ SaveBatch # <<>>
     THEN /\ run_saved' = Append(run_saved, SaveBatch)
          /\ IF run_cache = "GameCache"
             THEN /\ cache_rows' =
                       ExecuteMany(cache_rows,
                                   [i \in 1..Len(SaveBatch) |->
                                      EvalToRow(SaveBatch[i][1], "Bob",
                                                DefaultDepth, SaveBatch[i][2])])
                  /\ cache_log' = cache_log \o
                       [i \in 1..Len(SaveBatch) |->
                          [game_url |-> SaveBatch[i][1], depth |-> DefaultDepth,
                           evaluation |-> SaveBatch[i][2]]]
                  /\ cache_out' =
                       <<SaveOutcome("save_evaluations_batch", DefaultDepth)>>
             ELSE UNCHANGED cache_vars
     ELSE UNCHANGED <<run_saved, cache_vars>>
  /\ run_result' = Returned
  /\ run_pc' = "done"
  /\ UNCHANGED <<main_vars, loss_vars, fold_vars, dev_vars, sf_vars,
                 run_games, run_workers, run_cache, run_mock, force_refresh,
                 cached_evals, uncached_games, opening_stats>>

InitRun == RunStart /\ LossIdle /\ FoldIdle /\ DevIdle /\ SfIdle

NextRun ==
  \/ RunLookup
  \/ RunAllCached
  \/ RunEnter
  \/ Next
  \/ RunExit
  \/ RunSave

SpecRun == InitRun /\ [][NextRun]_vars

\* The saves the cache held when run_analysis was called.
EarlierLog ==
  SubSeq(cache_log, 1,
         Len(cache_log) - (IF run_saved = <<>> THEN 0 ELSE Len(run_saved[1])))

\* The (url, evaluation) entries the cache held at the requested depth when
\* run_analysis was called.
CachedEntries ==
  IF run_cache = "MagicMock" THEN run_mock
  ELSE {[game_url |-> e.game_url, evaluation |-> e.evaluation] :
          e \in {x \in Range(EarlierLog) : x.depth = DefaultDepth}}

\* The game has a cached evaluation at the requested depth.
HasCached(g) == g.game_url \in {e.game_url : e \in CachedEntries}

\* The statistics map holding the fold of the entries alone.
FoldOfEntries(entries) ==
  LET q == CHOOSE l \in Listings(entries) : TRUE
  IN AggregateAll(<<>>, [i \in 1..Len(q) |-> q[i].evaluation], 1)

\* C22: in run_analysis with a cache and force_refresh off, no game with a
\* cached evaluation at the requested depth is in the list handed to
\* analyze_repertoire; and when every game of a non-empty input has one, no
\* evaluator is created or started, no position is evaluated, nothing is
\* saved to the cache, and the run returns with the statistics being the
\* fold of the cached evaluations alone.
C22_CachedGamesSkipEngine ==
  (run_cache # "none" /\ ~force_refresh) =>
    /\ \A j \in 1..Len(games) : ~HasCached(games[j])
    /\ (run_games # <<>> /\ \A j \in 1..Len(run_games) : HasCached(run_games[j])) =>
         /\ \A e \in EvaluatorIds :
              /\ evaluators[e] = NotCreated
              /\ proc[e] = "none"
              /\ engine_calls[e] = <<>>
         /\ run_saved = <<>>
         /\ cache_rows = RowsOf(EarlierLog)
         /\ run_pc = "done" =>
              /\ run_result = Returned
              /\ NumericView(opening_stats) =
                   NumericView(FoldOfEntries(
                     {e \in CachedEntries :
                        run_cache = "GameCache" =>
                          e.game_url \in Range(GameUrls(run_games))}))

\* ===================================================== the critical section
\* _analyze_parallel is running or has run.
InParallel ==
  Parallel /\ pc \in {"par_split", "par_spawn", "as_completed", "shutdown",
                      "finally", "done"}

\* The number of newly analysed evaluations folded into the statistics map.
NewlyFolded == Folded(stats) - Len(cached_evaluations)

\* C23: in parallel mode, whenever no worker holds the lock, the length of
\* the results list, the completed counter and the number of newly analysed
\* evaluations in the statistics map (sum of times_played minus the number
\* of cached evaluations) are equal; and a worker about to increment the
\* counter and call the progress callback, inside the critical section,
\* finds the list and the map both at the value the counter then takes.
C23_CountsAgreeOutsideLock ==
  InParallel =>
    /\ lock = 0 =>
         /\ Len(new_evals) = completed
         /\ NewlyFolded = completed
    /\ \A w \in Workers :
         wpc[w] = "cs_count" =>
           /\ lock = w
           /\ Len(new_evals) = NextCompleted(completed)
           /\ NewlyFolded = NextCompleted(completed)

\* With a cached evaluation in the map, one game has been published and
\* reported to the callback, the lock is free, and another worker is about
\* to enter the critical section.
C23_Witness ==
  /\ InParallel
  /\ cached_evaluations # <<>>
  /\ lock = 0
  /\ completed = 1
  /\ cb_calls = <<(<<1, total>>)>>
  /\ \E w \in Workers : wpc[w] = "lock"

\* The positions of a worker inside `with lock:`.
InSection == {"cs_fold", "cs_append", "cs_count"}

\* Some submitted worker has not finished its batch.
WorkersRunning == \E w \in futures : ~Finished(w)

\* A step that changes the statistics map, the results list or the counter.
MutatesShared ==
  stats' # stats \/ new_evals' # new_evals \/ completed' # completed

\* C24: in parallel mode at most one worker is inside the section that
\* folds, appends and increments, and that worker is the holder of the one
\* lock; and while workers are running every step that changes the
\* statistics map, the results list or the counter is a step of the worker
\* holding the lock, taken inside the section.
C24_OneWorkerInSection ==
  /\ [](Parallel =>
          /\ \A w1, w2 \in Workers :
               (wpc[w1] \in InSection /\ wpc[w2] \in InSection) => w1 = w2
          /\ \A w \in Workers : wpc[w] \in InSection <=> lock = w)
  /\ [][(WorkersRunning /\ MutatesShared) =>
          /\ lock # 0
          /\ wpc[lock] \in InSection
          /\ wpc'[lock] # wpc[lock]
          /\ \A w \in Workers \ {lock} : wpc'[w] = wpc[w]]_vars

\* One worker is inside the section, having folded its evaluation, while
\* another has an evaluation ready and waits for the lock.
C24_Witness ==
  /\ Parallel
  /\ \E w1, w2 \in Workers :
       /\ w1 # w2
       /\ wpc[w1] = "cs_append"
       /\ lock = w1
       /\ wpc[w2] = "lock"
       /\ wev[w2] # NoEvaluation

\* ===================================================== one evaluator a worker
\* C25: in parallel mode the evaluators started are pairwise different
\* objects, none of them the analyzer's own; every evaluate call an
\* evaluator receives is for a game of the one batch submitted with it, so
\* no evaluator is called by two workers; the analyzer's own evaluator
\* receives no evaluate call; and every evaluator created has the engine
\* path and the depth of the analyzer's own.
C25_OwnEvaluatorPerWorker ==
  InParallel =>
    /\ \A i, j \in 1..Len(engines) : engines[i] = engines[j] => i = j
    /\ \A i \in 1..Len(engines) : engines[i] # 0
    /\ engine_calls[0] = <<>>
    /\ \A w \in Workers :
         \A k \in 1..Len(engine_calls[w]) :
           /\ w <= Len(engines)
           /\ \E j \in 1..Len(chunks[w]) :
                chunks[w][j].game = engine_calls[w][k].game
    /\ \A e \in Workers :
         evaluators[e].created =>
           /\ evaluators[e].stockfish_path = evaluators[0].stockfish_path
           /\ evaluators[e].depth = evaluators[0].depth

\* A parallel run has returned in which two workers each evaluated a game
\* on their evaluators.
C25_Witness ==
  /\ InParallel /\ Done /\ ReturnedOk
  /\ \E e1, e2 \in Workers :
       /\ e1 # e2
       /\ engine_calls[e1] # <<>>
       /\ engine_calls[e2] # <<>>

\* ======================================================= buckets as summaries
RECURSIVE SumOver(_, _, _)
\* The sum of field f of evs[i] over the positions i of idx.
SumOver(evs, idx, f) ==
  IF idx = {} THEN 0
  ELSE LET i == CHOOSE x \in idx : TRUE
       IN evs[i][f] + SumOver(evs, idx \ {i}, f)

\* The positions among the first n of evs folded under key k.
FoldedUnder(evs, n, k) == {i \in 1..n : StatsKey(evs[i]) = k}

\* st summarises exactly the first n evaluations of evs.
Summarises(st, evs, n) ==
  /\ DOMAIN st = {StatsKey(evs[i]) : i \in 1..n}
  /\ \A k \in DOMAIN st :
       LET idx == FoldedUnder(evs, n, k)
       IN /\ st[k].times_played = Cardinality(idx)
          /\ Len(st[k].evaluations) = Cardinality(idx)
          /\ st[k].total_eval = SumOver(evs, idx, "eval_cp")
          /\ \A i \in idx : st[k].min_eval <= evs[i].eval_cp
          /\ \E i \in idx : st[k].min_eval = evs[i].eval_cp
          /\ \A i \in idx : st[k].max_eval >= evs[i].eval_cp
          /\ \E i \in idx : st[k].max_eval = evs[i].eval_cp
          /\ st[k].total_deviation_ply = SumOver(evs, idx, "deviation_ply")
          /\ st[k].player_deviated_count =
               Cardinality({i \in idx : evs[i].deviating_side = evs[i].my_color})
          /\ st[k].player_deviated_count =
               Cardinality({i \in idx : evs[i].deviating_side = evs[i].my_color
                                        /\ ~evs[i].is_fully_booked})
          /\ st[k].player_deviated_count <= st[k].times_played

\* C26: after any number of folds into a statistics map every bucket is an
\* exact summary of the evaluations folded into it: times_played and the
\* length of the score list are their number, total_eval the sum of their
\* scores, min_eval and max_eval the least and greatest score,
\* total_deviation_ply the sum of their plies, player_deviated_count the
\* number of them whose deviating side is the player's colour - fully
\* booked games never among them - and so at most times_played.
C26_BucketsAreExactSummaries ==
  /\ Summarises(fold_sa, fold_a, fold_ia)
  /\ Summarises(fold_sb, fold_b, fold_ib)

\* Three evaluations are folded: two into one bucket, with different scores
\* and one of them a deviation of the player, and a fully booked game into
\* another bucket.
C26_Witness ==
  /\ fold_ia = MaxFold
  /\ \E k \in DOMAIN fold_sa :
       /\ fold_sa[k].times_played = 2
       /\ fold_sa[k].min_eval < fold_sa[k].max_eval
       /\ fold_sa[k].player_deviated_count = 1
  /\ \E k \in DOMAIN fold_sa :
       /\ fold_sa[k].times_played = 1
       /\ fold_sa[k].player_deviated_count = 0
       /\ \E i \in FoldedUnder(fold_a, fold_ia, k) : fold_a[i].is_fully_booked

\* ================================================= fully booked move lists
\* Every move of the list is endorsed at the position the moves before it
\* lead to.
AllEndorsed(moves) == \A j \in 0..(Len(moves) - 1) : Endorsed(moves, j)

\* C27: a call with a list of n >= 1 moves that are all endorsed returns a
\* fully booked result whose position is the one before the final move,
\* reached by moves 0..n-2 from the starting position - the starting
\* position itself for n = 1 - and not the position after the last move.
C27_FullyBookedPosition ==
  \A c \in DevCalls :
    (c.moves # <<>> /\ AllEndorsed(c.moves)) =>
      LET r == c.result[1]
          n == Len(c.moves)
      IN /\ r.is_fully_booked
         /\ r.board_at_deviation = PositionAfter(c.moves, n - 1)
         /\ r.board_at_deviation # PositionAfter(c.moves, n)
         /\ n = 1 => r.board_at_deviation = StartBoard

\* A fully booked list of one move was passed, and then a fully booked list
\* of two moves.
C27_Witness ==
  /\ dev_kept # <<>>
  /\ dev_kept[1].moves = <<"e2e4">>
  /\ dev_kept[1].result[1].is_fully_booked
  /\ dev_last[1].moves = <<"e2e4", "c7c5">>
  /\ dev_last[1].result[1].is_fully_booked
  /\ dev_last[1].result[1].board_at_deviation = <<"e2e4">>

\* ================================================ engines outlive the workers
\* C28: in parallel mode a submitted worker that has not finished its batch
\* has its evaluator's engine running and its handle set; the cleanup loop
\* is reached, and any worker engine quit, only when every submitted worker
\* has finished (returned or raised) - also when the failure of one worker
\* has ended the wait for the others; and no worker has found its evaluator
\* without an engine.
C28_NoStopUnderRunningWorker ==
  Parallel =>
    /\ \A w \in futures :
         ~Finished(w) =>
           /\ proc[WorkerEngine(w)] = "running"
           /\ evaluators[WorkerEngine(w)].engine
    /\ (pc \in {"finally", "done"}
          \/ \E e \in Workers : proc[e] \in {"quit", "quit_failed"}) =>
         \A w \in futures : Finished(w)
    /\ \A w \in Workers : wexc[w] # "RuntimeError"

\* One worker's evaluation raised, another worker went on to publish a game,
\* and the cleanup loop has then quit the first engine.
C28_Witness ==
  /\ Parallel
  /\ pc = "finally"
  /\ pending_exc = "EngineError"
  /\ fin_i > 1
  /\ proc[engines[1]] = "quit"
  /\ \E w1, w2 \in futures :
       /\ wpc[w1] = "raised"
       /\ wpc[w2] = "done"
       /\ completed >= 1

\* ================================================================ termination
\* The steps of the thread that called analyze_repertoire.
CallerStep ==
  \/ Prepare
  \/ SeqProgress
  \/ SeqEvaluate
  \/ SeqFold
  \/ ParSplit
  \/ StartEngine
  \/ Submit
  \/ AwaitFuture
  \/ PoolShutdown
  \/ StopEngine
  \/ ParReturn

\* The steps of the pool thread running the batch of worker w.
WorkerStep(w) ==
  \/ WEvaluate(w)
  \/ WAcquire(w)
  \/ WFold(w)
  \/ WAppend(w)
  \/ WCount(w)

\* Every engine call and the progress callback return or raise, and every
\* thread that can take a step is eventually scheduled.
FairScheduling ==
  /\ WF_vars(CallerStep)
  /\ \A w \in Workers : WF_vars(WorkerStep(w))

\* Every game list and worker count, with a progress callback; the cached
\* evaluations and the engine's answers have no part in the scheduling.
InitLive ==
  /\ games \in SeqsUpTo(Catalogue, MaxGames)
  /\ workers \in 0..MaxWorkers
  /\ progress_callback = TRUE
  /\ cached_evaluations = <<>>
  /\ engine_table = 1
  /\ MainStart
  /\ UnitIdle

SpecLive == InitLive /\ [][Next]_vars /\ FairScheduling

\* C29: under fair scheduling, with engine calls and the callback returning
\* or raising, analyze_repertoire eventually returns or raises, for every
\* worker count and game list; when it has, the lock is free; and when a
\* parallel run returns successfully the completed counter is the number of
\* surviving games.
C29_EventuallyReturns ==
  /\ <>Done
  /\ [](Done => lock = 0)
  /\ []((Done /\ ReturnedOk /\ Parallel) => completed = Len(Survivors))

\* A parallel run over three surviving games has returned successfully, all
\* three counted.
C29_Witness ==
  /\ Done /\ ReturnedOk /\ Parallel
  /\ Len(Survivors) = MaxGames
  /\ completed = MaxGames
  /\ lock = 0

\* ============================================================ bucket keying
\* The stats map after the first n evaluations of evs are folded into a
\* fresh map.
FoldedPrefix(evs, n) == AggregateAll(<<>>, SubSeq(evs, 1, n), 1)

\* The buckets one fold created or changed, from the map before it and the
\* map after it.
Touched(before, after) ==
  {k \in DOMAIN after : k \notin DOMAIN before \/ after[k] # before[k]}

RECURSIVE BucketsFrom(_, _, _)
\* For each of evs[from..], folded in list order into st, the buckets its
\* fold touched.
BucketsFrom(st, evs, from) ==
  IF from > Len(evs) THEN <<>>
  ELSE LET after == Aggregate(st, evs[from])
       IN <<Touched(st, after)>> \o BucketsFrom(after, evs, from + 1)

\* The buckets touched by each of the folds made so far in the first order.
BucketsSoFar == BucketsFrom(<<>>, SubSeq(fold_a, 1, fold_ia), 1)

\* The opening code an evaluation is bucketed by: an empty code and the
\* code "Unknown" count as the missing code.
BucketCode(evaluation) ==
  IF evaluation.eco_code \in {None, "", "Unknown"} THEN None
  ELSE evaluation.eco_code

\* C30 as stated: two folded evaluations share a statistics bucket exactly
\* when they have the same colour and the same opening code, the
\* evaluations without a code sharing one bucket per colour; an evaluation
\* with a code, whatever the string, never shares a bucket with one of
\* another code or with one without a code.
C30_BucketIffSameCodeAndColor ==
  LET b == BucketsSoFar
  IN /\ fold_sa = FoldedPrefix(fold_a, fold_ia)
     /\ \A i, j \in 1..fold_ia :
          (b[i] = b[j])
            <=> (/\ fold_a[i].my_color = fold_a[j].my_color
                 /\ fold_a[i].eco_code = fold_a[j].eco_code)

\* C30 as amended: every fold touches exactly one bucket, and two folded
\* evaluations of colours white and black share a bucket exactly when they
\* have the same colour and the same opening code, where a missing code,
\* the empty code and the code "Unknown" count as one code; an evaluation
\* with any other code never shares a bucket with one of a different code
\* or with one of those three.
C30_BucketIffSameKeyedCodeAndColor ==
  LET b == BucketsSoFar
  IN /\ fold_sa = FoldedPrefix(fold_a, fold_ia)
     /\ \A i \in 1..fold_ia : Cardinality(b[i]) = 1
     /\ \A i, j \in 1..fold_ia :
          (b[i] = b[j])
            <=> (/\ fold_a[i].my_color = fold_a[j].my_color
                 /\ BucketCode(fold_a[i]) = BucketCode(fold_a[j]))

\* Three evaluations are folded: one without a code and one with the code
\* "Unknown" into one bucket, and one of an opening of the same colour into
\* another.
C30_Witness ==
  /\ fold_ia = MaxFold
  /\ \E i, j, k \in 1..fold_ia :
       /\ fold_a[i].eco_code = None
       /\ fold_a[j].eco_code = "Unknown"
       /\ fold_a[k].eco_code = "B90"
       /\ fold_a[k].my_color = fold_a[i].my_color
       /\ BucketsSoFar[i] = BucketsSoFar[j]
       /\ BucketsSoFar[k] # BucketsSoFar[i]
       /\ \A key \in BucketsSoFar[i] : fold_sa[key].times_played = 2
====
